---- MODULE Spec2Model ----
(***************************************************************************)
(* Model of proof-ai's verification pipeline (src/src/verify.ts), its      *)
(* sandbox detector (src/src/sandbox/index.ts), the Docker and E2B sandbox *)
(* providers (docker.ts and e2b.ts, held in src/src/e2b-shim.d.ts), the    *)
(* rule engine (src/unnamed/part_002) and the syntax heuristics            *)
(* (src/unnamed/part_005).                                                 *)
(*                                                                         *)
(* Text is modelled as a sequence of lines and a line as a record          *)
(* [kind, text]: kind is what the code's regular expressions and           *)
(* character counts can tell about the line, text names its content.       *)
(* The empty string is the empty sequence.  An optional value (x?: T) is   *)
(* a sequence of length at most one.                                       *)
(***************************************************************************)
EXTENDS Naturals, Sequences, FiniteSets, TLC

\* ------------------------------------------------------------------------
\* Bounds of the model
\* ------------------------------------------------------------------------

\* Fenced code blocks in one text input, hence concurrent block tasks.
MaxBlocks == 2

\* Run calls made on one provider instance used directly (SpecProvider).
MaxCallers == 2

\* cleanup() calls made on one provider instance used directly.
MaxCleanups == 2

\* Calls of isDockerAvailable and detectSandbox made on the detector
\* (SpecDetector).
MaxDetections == 3

\* resetDockerCache() calls made on the detector.
MaxResets == 1
MaxDefined == 2

\* ------------------------------------------------------------------------
\* Small helpers
\* ------------------------------------------------------------------------

None == <<>>
Some(x) == <<x>>

Line(kind, text) == [kind |-> kind, text |-> text]

\* A one-line message.
Msg(text) == <<Line("text", text)>>

RECURSIVE Picks(_, _)
\* The sequences obtained from s by keeping at most n of its elements, in
\* their order.
Picks(s, n) ==
  IF s = <<>> \/ n = 0 THEN {<<>>}
  ELSE Picks(Tail(s), n) \cup {<<Head(s)>> \o t : t \in Picks(Tail(s), n - 1)}

RECURSIVE SelectLines(_, _, _)
\* Array.prototype.filter on the lines of a string, keeping their order.
SelectLines(lines, kinds, i) ==
  IF i > Len(lines) THEN <<>>
  ELSE IF lines[i].kind \in kinds
       THEN <<lines[i]>> \o SelectLines(lines, kinds, i + 1)
       ELSE SelectLines(lines, kinds, i + 1)

RECURSIVE TrimStart(_)
TrimStart(s) ==
  IF s = <<>> THEN s ELSE IF s[1].kind = "blank" THEN TrimStart(Tail(s)) ELSE s

RECURSIVE TrimEnd(_)
TrimEnd(s) ==
  IF s = <<>> THEN s
  ELSE IF s[Len(s)].kind = "blank" THEN TrimEnd(SubSeq(s, 1, Len(s) - 1)) ELSE s

\* String.prototype.trim: leading and trailing white space, here blank lines.
Trim(s) == TrimEnd(TrimStart(s))

\* ------------------------------------------------------------------------
\* types.ts: languages
\* ------------------------------------------------------------------------

Languages == {"python", "javascript", "typescript", "go", "rust"}

LANGUAGE_ALIASES ==
  [a \in {"py", "python", "python3", "js", "javascript", "node", "ts",
          "typescript", "go", "golang", "rust", "rs"} |->
     CASE a \in {"py", "python", "python3"} -> "python"
       [] a \in {"js", "javascript", "node"} -> "javascript"
       [] a \in {"ts", "typescript"} -> "typescript"
       [] a \in {"go", "golang"} -> "go"
       [] OTHER -> "rust"]

\* resolveLanguage: the canonical language, or undefined (None).
resolveLanguage(lang) ==
  IF lang \in DOMAIN LANGUAGE_ALIASES THEN Some(LANGUAGE_ALIASES[lang]) ELSE None

\* language ? resolveLanguage(language) ?? fallback : fallback, with the
\* language option an optional string.
LanguageOr(languageOpt, fallback) ==
  IF languageOpt = None THEN fallback
  ELSE IF resolveLanguage(languageOpt[1]) = None THEN fallback
       ELSE resolveLanguage(languageOpt[1])[1]

\* A variant of EXECUTABLE_LANGUAGES that also executes Go.
ExecutableWithGo == {"python", "javascript", "typescript", "go"}

EXECUTABLE_LANGUAGES == {"python", "javascript", "typescript"}

\* ------------------------------------------------------------------------
\* Source code under verification
\* ------------------------------------------------------------------------

\* Kinds of code line the checks tell apart:
\*   ok       nothing to report
\*   open     one unmatched "{"          close    one unmatched "}"
\*   nocolon  a Python block statement that lacks its colon
\*   secret   reported by the hardcoded-secret predicate
\*   sql      matches the SQL-injection pattern
\*   todo     reported by the incomplete-code predicate
\*   pass     reported by the empty-block predicate
\*   eval     matches the pattern of the caller's rule custom/no-eval
\*   boom     makes the predicate of the caller's rule custom/fragile throw
Code(name, kinds) == [name |-> name, lines |-> [i \in 1..Len(kinds) |-> Line(kinds[i], name)]]

CleanCode == Code("clean", <<"ok">>)
TodoCode == Code("todo", <<"sql", "todo", "pass">>)
OpenCode == Code("open", <<"nocolon", "open", "eval">>)
SecretCode == Code("secret", <<"secret", "eval", "secret">>)
BoomCode == Code("boom", <<"boom">>)
EvalCode == Code("eval", <<"eval">>)
BlankCode == Code("blank", <<>>)
WhitespaceCode == Code("whitespace", <<"blank", "blank">>)

Block(language, code) == [language |-> language, code |-> code]

\* The fenced blocks of the document the text inputs are taken from: a text
\* input keeps some of them, in their order.
Document ==
  << Block("python", OpenCode),
     Block("go", SecretCode),
     Block("javascript", TodoCode),
     Block("rust", BoomCode),
     Block("typescript", CleanCode) >>

\* ------------------------------------------------------------------------
\* Issues
\* ------------------------------------------------------------------------

Issue(source, severity, message, ruleId, line) ==
  [source |-> source, severity |-> severity, message |-> message,
   ruleId |-> ruleId, line |-> line, suggestion |-> None]

\* The issue with a suggestion, which only the issues of rules have.
Suggesting(issue, suggestion) == [issue EXCEPT !.suggestion = suggestion]

\* ------------------------------------------------------------------------
\* Syntax heuristics (syntax.ts)
\* ------------------------------------------------------------------------

RECURSIVE countChar(_, _, _)
\* Occurrences of a bracket character in the stripped code: here, the lines
\* of the given kind from line i on.
countChar(lines, kind, i) ==
  IF i > Len(lines) THEN 0
  ELSE (IF lines[i].kind = kind THEN 1 ELSE 0) + countChar(lines, kind, i + 1)

\* One issue without a line number per unbalanced pair; of the three pairs
\* the model's code holds braces only.
checkBracketBalance(code) ==
  IF countChar(code.lines, "open", 1) # countChar(code.lines, "close", 1)
  THEN <<Issue("syntax", "error", Msg("Unbalanced braces"), None, None)>>
  ELSE <<>>

RECURSIVE MissingColons(_, _)
MissingColons(lines, i) ==
  IF i > Len(lines) THEN <<>>
  ELSE (IF lines[i].kind = "nocolon"
        THEN <<Issue("syntax", "error", Msg("Missing colon"), None, Some(i))>>
        ELSE <<>>) \o MissingColons(lines, i + 1)

checkPython(code) == MissingColons(code.lines, 1) \o checkBracketBalance(code)

checkJavaScriptOrTypeScript(code) == checkBracketBalance(code)

checkSyntax(code, language) ==
  CASE language = "python" -> checkPython(code)
    [] language \in {"javascript", "typescript"} -> checkJavaScriptOrTypeScript(code)
    [] OTHER -> <<>>

\* ------------------------------------------------------------------------
\* Rules and the rule engine (rules/engine.ts, rules/builtin)
\* ------------------------------------------------------------------------

\* languages, pattern and check are optional.  A pattern is the set of line
\* kinds its regular expression matches, a check the name of a predicate.
Rule(id, languages, pattern, check, severity) ==
  [id |-> id, languages |-> languages, pattern |-> pattern, flags |-> "", check |-> check,
   message |-> Msg(id), severity |-> severity, suggestion |-> None]

\* The rule with the flags of its regular expression set: "g" (global),
\* "y" (sticky) or "" (neither); only these two make test() use lastIndex.
Flagged(rule, flags) == [rule EXCEPT !.flags = flags]

\* The built-in rules stand for their categories: predicates that report
\* one match per offending line, and the one built-in pattern rule.
noHardcodedSecrets ==
  Rule("security/no-hardcoded-secrets", None, None, Some("hardcodedSecrets"), "error")
noSqlInjection == Rule("security/no-sql-injection", None, Some({"sql"}), None, "warning")
noIncompleteCode ==
  Rule("ai-mistakes/no-incomplete-code", None, None, Some("incomplete"), "warning")
noEmptyBlocks == Rule("code-quality/no-empty-blocks", None, None, Some("emptyBlocks"), "info")

securityRules == <<noHardcodedSecrets, noSqlInjection>>
aiMistakeRules == <<noIncompleteCode>>
codeQualityRules == <<noEmptyBlocks>>
allBuiltinRules == securityRules \o aiMistakeRules \o codeQualityRules

resolveRuleSet(name) ==
  CASE name = "all" -> allBuiltinRules
    [] name = "security" -> securityRules
    [] name = "ai-mistakes" -> aiMistakeRules
    [] OTHER -> codeQualityRules

\* Rules of a caller: a pattern restricted to Python, and a predicate that
\* throws on some code.
noEval == Rule("custom/no-eval", Some({"python"}), Some({"eval"}), None, "error")
fragileRule == Rule("custom/fragile", None, None, Some("fragile"), "warning")
CustomRules == <<noEval, fragileRule>>

\* A rule of a caller that has a pattern, a predicate whose matches carry
\* neither message nor suggestion, and a default suggestion.
secretsTwice ==
  [Rule("custom/secrets-twice", None, Some({"secret"}), Some("secretLines"), "warning")
     EXCEPT !.suggestion = Some(Msg("read it from the environment"))]

RuleMatch(message, line, suggestion) ==
  [message |-> message, line |-> line, suggestion |-> suggestion]

\* The kind of line a predicate reports.
PredicateLineKind(name) ==
  CASE name \in {"hardcodedSecrets", "secretLines"} -> "secret"
    [] name = "incomplete" -> "todo"
    [] OTHER -> "pass"

\* The message and the suggestion of the matches of a predicate: the
\* built-in predicates give a message, the empty-block one a suggestion too.
PredicateMessage(name) == IF name = "secretLines" THEN None ELSE Some(Msg(name))
PredicateSuggestion(name) ==
  IF name = "emptyBlocks" THEN Some(Msg("Add implementation")) ELSE None

RECURSIVE PredicateMatches(_, _, _)
PredicateMatches(name, lines, i) ==
  IF i > Len(lines) THEN <<>>
  ELSE (IF lines[i].kind = PredicateLineKind(name)
        THEN <<RuleMatch(PredicateMessage(name), Some(i), PredicateSuggestion(name))>>
        ELSE <<>>) \o PredicateMatches(name, lines, i + 1)

\* rule.check(code, language): the predicate either throws or returns matches.
Check(name, code, language) ==
  IF name = "fragile"
  THEN [threw |-> \E i \in 1..Len(code.lines) : code.lines[i].kind = "boom",
        matches |-> <<>>]
  ELSE [threw |-> FALSE, matches |-> PredicateMatches(name, code.lines, 1)]

RECURSIVE findPatternMatches(_, _, _)
\* The 1-based numbers of the lines the pattern matches, ascending.
findPatternMatches(lines, pattern, i) ==
  IF i > Len(lines) THEN <<>>
  ELSE (IF lines[i].kind \in pattern THEN <<i>> ELSE <<>>)
         \o findPatternMatches(lines, pattern, i + 1)

\* A variant of PatternIssues that numbers the lines from 0.
PatternIssuesFromZero(rule, matches) ==
  [k \in 1..Len(matches) |->
     Suggesting(Issue("rule", rule.severity, rule.message, Some(rule.id),
                      Some(matches[k] - 1)),
                rule.suggestion)]

PatternIssues(rule, matches) ==
  [k \in 1..Len(matches) |->
     Suggesting(Issue("rule", rule.severity, rule.message, Some(rule.id),
                      Some(matches[k])),
                rule.suggestion)]

\* A variant of CheckIssues that gives every issue the message and the
\* suggestion of the rule.
CheckIssuesByDefault(rule, matches) ==
  [k \in 1..Len(matches) |->
     Suggesting(Issue("rule", rule.severity, rule.message, Some(rule.id),
                      matches[k].line),
                rule.suggestion)]

\* message: match.message ?? rule.message, and the suggestion likewise.
CheckIssues(rule, matches) ==
  [k \in 1..Len(matches) |->
     Suggesting(Issue("rule", rule.severity,
                      IF matches[k].message = None THEN rule.message
                      ELSE matches[k].message[1],
                      Some(rule.id), matches[k].line),
                IF matches[k].suggestion = None THEN rule.suggestion
                ELSE matches[k].suggestion)]

\* Whether the loop skips the rule for this language.
RuleSkipped(rule, language) ==
  /\ rule.languages # None
  /\ language # "unknown"
  /\ language \notin rule.languages[1]

RECURSIVE runRulesFrom(_, _, _, _)
\* The loop of runRules from the k-th rule on: the issues pushed, or threw
\* when a predicate throws (the issues pushed so far are lost with it).
runRulesFrom(code, language, rules, k) ==
  IF k > Len(rules) THEN [threw |-> FALSE, issues |-> <<>>]
  ELSE
    LET rule == rules[k]
        rest == runRulesFrom(code, language, rules, k + 1)
    IN IF RuleSkipped(rule, language) THEN rest
       ELSE
         LET fromPattern ==
               IF rule.pattern # None
               THEN PatternIssues(rule, findPatternMatches(code.lines, rule.pattern[1], 1))
               ELSE <<>>
             checked ==
               IF rule.check # None THEN Check(rule.check[1], code, language)
               ELSE [threw |-> FALSE, matches |-> <<>>]
         IN IF checked.threw \/ rest.threw THEN [threw |-> TRUE, issues |-> <<>>]
            ELSE [threw |-> FALSE,
                  issues |-> fromPattern \o CheckIssues(rule, checked.matches) \o rest.issues]

runRules(code, language, rules) == runRulesFrom(code, language, rules, 1)

\* pattern.test(line) with the regular expression at lastIndex: a global
\* expression searches from lastIndex on, a sticky one at lastIndex only,
\* and both leave lastIndex at the end of the match, or at 0 when there is
\* none; another expression neither reads nor writes lastIndex.  The match
\* of a matching line is its first character.
RegExpTest(line, pattern, flags, lastIndex) ==
  LET found == /\ line.kind \in pattern
               /\ flags = "g" => lastIndex <= 0
               /\ flags = "y" => lastIndex = 0
  IN [found |-> found,
      lastIndex |-> IF flags \notin {"g", "y"} THEN lastIndex
                    ELSE IF found THEN 1 ELSE 0]

\* A variant of ResetLastIndex that leaves lastIndex as test() left it.
KeepLastIndex(lastIndex) == lastIndex

\* pattern.lastIndex = 0, after every line.
ResetLastIndex(lastIndex) == 0

\* code.split("\n"): at least one line.
SplitLines(code) == IF code.lines = <<>> THEN <<Line("blank", "")>> ELSE code.lines

RECURSIVE findPatternMatchesAt(_, _, _, _, _)
\* findPatternMatches on a regular expression that stands at lastIndex: the
\* numbers of the matching lines, and lastIndex afterwards.
findPatternMatchesAt(lines, pattern, flags, lastIndex, i) ==
  IF i > Len(lines) THEN [matches |-> <<>>, lastIndex |-> lastIndex]
  ELSE LET tested == RegExpTest(lines[i], pattern, flags, lastIndex)
           rest == findPatternMatchesAt(lines, pattern, flags,
                                        ResetLastIndex(tested.lastIndex), i + 1)
       IN [matches |-> (IF tested.found THEN <<i>> ELSE <<>>) \o rest.matches,
           lastIndex |-> rest.lastIndex]

RECURSIVE runRulesAt(_, _, _, _, _)
\* The loop of runRules from the k-th rule on, the regular expressions of
\* the rules standing at lastIndexes: the issues pushed, or threw, and the
\* lastIndex of every rule afterwards; invoked counts, rule by rule, the
\* calls of rule.check.
runRulesAt(code, language, rules, lastIndexes, k) ==
  IF k > Len(rules)
  THEN [threw |-> FALSE, issues |-> <<>>, lastIndex |-> lastIndexes,
        invoked |-> [j \in 1..Len(rules) |-> 0]]
  ELSE
    LET rule == rules[k]
    IN IF RuleSkipped(rule, language)
       THEN runRulesAt(code, language, rules, lastIndexes, k + 1)
       ELSE
         LET found ==
               IF rule.pattern # None
               THEN findPatternMatchesAt(SplitLines(code), rule.pattern[1], rule.flags,
                                         lastIndexes[k], 1)
               ELSE [matches |-> <<>>, lastIndex |-> lastIndexes[k]]
             after == [lastIndexes EXCEPT ![k] = found.lastIndex]
             checked ==
               IF rule.check # None THEN Check(rule.check[1], code, language)
               ELSE [threw |-> FALSE, matches |-> <<>>]
             rest == runRulesAt(code, language, rules, after, k + 1)
             once == IF rule.check # None THEN 1 ELSE 0
         IN IF checked.threw
            THEN [threw |-> TRUE, issues |-> <<>>, lastIndex |-> after,
                  invoked |-> [j \in 1..Len(rules) |-> IF j = k THEN 1 ELSE 0]]
            ELSE [threw |-> rest.threw,
                  invoked |-> [rest.invoked EXCEPT ![k] = @ + once],
                  issues |-> IF rest.threw THEN <<>>
                             ELSE PatternIssues(rule, found.matches)
                                    \o CheckIssues(rule, checked.matches) \o rest.issues,
                  lastIndex |-> rest.lastIndex]

\* ------------------------------------------------------------------------
\* Input resolution (verify.ts resolveInput, extract.ts)
\* ------------------------------------------------------------------------

\* A text input: the fenced, non-empty code blocks extractCodeBlocks finds in
\* it, and the whole text read as code (blank when the text is empty or
\* whitespace).
Text(fenced, whole) == [fenced |-> fenced, whole |-> whole]

extractCodeBlocks(text) == text.fenced

\* Files are told apart by their extension.
EXTENSION_MAP ==
  [e \in {".py", ".pyw", ".js", ".mjs", ".cjs", ".jsx", ".ts", ".mts", ".cts",
          ".tsx", ".go", ".rs"} |->
     CASE e \in {".py", ".pyw"} -> "python"
       [] e \in {".js", ".mjs", ".cjs", ".jsx"} -> "javascript"
       [] e \in {".ts", ".mts", ".cts", ".tsx"} -> "typescript"
       [] e = ".go" -> "go"
       [] OTHER -> "rust"]

languageFromPath(filePath) ==
  IF filePath \in DOMAIN EXTENSION_MAP THEN Some(EXTENSION_MAP[filePath]) ELSE None

Options(code, text, file, language, sandbox, rulesOption, install) ==
  [code |-> code, text |-> text, file |-> file, language |-> language,
   sandbox |-> sandbox, rules |-> rulesOption, install |-> install]

\* A variant of InputCount that only tells whether some input is given.
AnyInput(options) ==
  IF \E f \in {"code", "text", "file"} : options[f] # None THEN 1 ELSE 0

\* [code, text, file].filter((x) => x !== undefined).length
InputCount(options) ==
  Cardinality({f \in {"code", "text", "file"} : options[f] # None})

Thrown(error) == [threw |-> TRUE, error |-> error, blocks |-> <<>>]
Resolved(bs) == [threw |-> FALSE, error |-> "", blocks |-> bs]

\* resolveInput; fileRead is what readFile does: [ok, content].
resolveInput(options, fileRead) ==
  IF InputCount(options) = 0
  THEN Thrown("One of code, text, or file must be provided")
  ELSE IF InputCount(options) > 1
  THEN Thrown("Only one of code, text, or file can be provided")
  ELSE IF options.code # None
  THEN Resolved(<<Block(LanguageOr(options.language, "unknown"), options.code[1])>>)
  ELSE IF options.text # None
  THEN LET found == extractCodeBlocks(options.text[1])
       IN IF Len(found) = 0 /\ Len(Trim(options.text[1].whole.lines)) > 0
          THEN Resolved(<<Block(LanguageOr(options.language, "unknown"),
                                options.text[1].whole)>>)
          ELSE Resolved(found)
  ELSE IF ~fileRead.ok
  THEN Thrown("ENOENT: no such file or directory")
  ELSE LET detectedLang == languageFromPath(options.file[1])
           fallback == IF detectedLang = None THEN "unknown" ELSE detectedLang[1]
       IN Resolved(<<Block(LanguageOr(options.language, fallback), fileRead.content)>>)

\* ------------------------------------------------------------------------
\* Rule and sandbox options (verify.ts)
\* ------------------------------------------------------------------------

\* The rules option is [kind, name, list]: kind is "false", "undefined",
\* "named" (a rule-set name) or "custom" (a rule array).
RulesOption(kind, name, list) == [kind |-> kind, name |-> name, list |-> list]

\* A variant of resolveRules that takes rules: false for the default.
resolveRulesOrDefault(rulesOption) ==
  CASE rulesOption.kind \in {"false", "undefined"} -> allBuiltinRules
    [] rulesOption.kind = "named" /\ rulesOption.name = "all" -> allBuiltinRules
    [] rulesOption.kind = "named" -> resolveRuleSet(rulesOption.name)
    [] OTHER -> rulesOption.list

resolveRules(rulesOption) ==
  CASE rulesOption.kind = "false" -> <<>>
    [] rulesOption.kind = "undefined" -> allBuiltinRules
    [] rulesOption.kind = "named" /\ rulesOption.name = "all" -> allBuiltinRules
    [] rulesOption.kind = "named" -> resolveRuleSet(rulesOption.name)
    [] OTHER -> rulesOption.list

\* A variant of resolveSandboxPreference: no sandbox unless asked for.
resolveSandboxOptIn(sandboxOption) ==
  IF sandboxOption = "undefined" THEN "false" ELSE sandboxOption

\* The sandbox option is "undefined", "true", "false", "docker" or "e2b".
resolveSandboxPreference(sandboxOption) ==
  IF sandboxOption = "undefined" THEN "true" ELSE sandboxOption

\* ------------------------------------------------------------------------
\* Execution results and the providers' pure parts (docker.ts, e2b.ts)
\* ------------------------------------------------------------------------

\* durationMs is "elapsed" for a measured time (Date.now() - start), which
\* the model leaves open, or "0" for the literal 0.
ExecutionResult(success, stdout, stderr, error, exitCode) ==
  [success |-> success, stdout |-> stdout, stderr |-> stderr, error |-> error,
   exitCode |-> exitCode, durationMs |-> "elapsed"]

\* The result with durationMs: 0.
Immediate(execution) == [execution EXCEPT !.durationMs = "0"]

\* What runProcess resolves with when the child closes: code is the exit
\* code, absent when a signal killed the child (code ?? 1).
ProcessResult(stdout, stderr, code) ==
  [stdout |-> stdout, stderr |-> stderr, exitCode |-> IF code = None THEN 1 ELSE code[1]]

\* How the program may exit by itself: with its exit code.
ProgramExits(code) ==
  { ProcessResult(Msg(code.name), <<>>, Some(0)),
    ProcessResult(<<>>, <<Line("text", "warning")>>, Some(0)),
    ProcessResult(<<>>, <<Line("text", "Traceback"), Line("errorType", code.name),
                          Line("blank", "")>>, Some(1)),
    ProcessResult(<<>>, <<>>, Some(1)),
    ProcessResult(<<>>, <<Line("blank", "")>>, Some(2)) }

\* How a container run of the code may end: the program exits, or the
\* output cap kills the child, which closes without an exit code.
ProcessResults(code) == ProgramExits(code) \cup {ProcessResult(Msg(code.name), <<>>, None)}

DOCKER_IMAGES == {"python", "javascript", "typescript"}

ExitCodeText(exitCode) ==
  CASE exitCode = 1 -> "Exit code 1"
    [] exitCode = 2 -> "Exit code 2"
    [] OTHER -> "Exit code 0"

\* A variant of needsNetwork that takes an empty install list for a request.
needsNetworkWhenGiven(install) == install # None

\* install !== undefined && install.length > 0
needsNetwork(install) == install # None /\ Len(install[1]) > 0

\* The flags of the container invocation that depend on the call.
buildDockerArgs(network) ==
  (IF network THEN {} ELSE {"--network=none"})
    \cup {"--rm", "--memory=256m", "--cpus=0.5", "--pids-limit=64", "--read-only",
          "--security-opt=no-new-privileges"}

\* DockerSandbox.run, language outside DOCKER_IMAGES.
\* A variant of DockerUnsupported whose duration is a measured time.
DockerUnsupportedMeasured(language) ==
  ExecutionResult(FALSE, <<>>, Msg("Unsupported language for Docker sandbox"),
                  Some(Msg("Unsupported language")), 1)

DockerUnsupported(language) ==
  Immediate(ExecutionResult(FALSE, <<>>, Msg("Unsupported language for Docker sandbox"),
                            Some(Msg("Unsupported language")), 1))

\* A variant of DockerResult that takes output on stderr for a failure.
DockerResultByStderr(proc) ==
  ExecutionResult(proc.exitCode = 0 /\ Trim(proc.stderr) = <<>>, Trim(proc.stdout),
                  Trim(proc.stderr),
                  IF proc.exitCode # 0
                  THEN Some(IF Trim(proc.stderr) # <<>> THEN Trim(proc.stderr)
                            ELSE Msg(ExitCodeText(proc.exitCode)))
                  ELSE None,
                  proc.exitCode)

\* A variant of DockerResult whose error is the exit code alone.
DockerResultByExitCode(proc) ==
  ExecutionResult(proc.exitCode = 0, Trim(proc.stdout), Trim(proc.stderr),
                  IF proc.exitCode # 0 THEN Some(Msg(ExitCodeText(proc.exitCode)))
                  ELSE None,
                  proc.exitCode)

\* DockerSandbox.run, the result built from the container's ProcessResult.
DockerResult(proc) ==
  ExecutionResult(proc.exitCode = 0, Trim(proc.stdout), Trim(proc.stderr),
                  IF proc.exitCode # 0
                  THEN Some(IF Trim(proc.stderr) # <<>> THEN Trim(proc.stderr)
                            ELSE Msg(ExitCodeText(proc.exitCode)))
                  ELSE None,
                  proc.exitCode)

\* What the remote runCode resolves with: [text, error], both optional; an
\* error is an object whose message is optional.
RunCodeResults(code) ==
  { [text |-> Some(Msg(code.name)), error |-> None],
    [text |-> None, error |-> None],
    [text |-> None, error |-> Some(Some(<<Line("errorType", code.name)>>))],
    [text |-> None, error |-> Some(None)] }

E2BUnsupported(language) ==
  Immediate(ExecutionResult(FALSE, <<>>,
                            Msg("E2B sandbox only supports Python and JavaScript/TypeScript"),
                            Some(Msg("Unsupported language")), 1))

\* E2BSandbox.run, the result built from what runCode resolved with.
E2BResult(r) ==
  LET message == IF r.error = None THEN None ELSE r.error[1]
  IN ExecutionResult(r.error = None,
                     IF r.text = None THEN <<>> ELSE r.text[1],
                     IF message = None THEN <<>> ELSE message[1],
                     message,
                     IF r.error = None THEN 0 ELSE 1)

\* A variant of E2BCaught that reports a failure without its error.
E2BCaughtUnnamed(message) == ExecutionResult(FALSE, <<>>, <<>>, None, 1)

\* E2BSandbox.run, the catch block.
E2BCaught(message) == ExecutionResult(FALSE, <<>>, Msg(message), Some(Msg(message)), 1)

\* ------------------------------------------------------------------------
\* Per-block verification and aggregation (verify.ts)
\* ------------------------------------------------------------------------

\* The synchronous part of verifyBlock: syntax issues, then rule issues, or
\* threw when a rule's predicate throws.
\* A variant of StaticIssues in which a throwing predicate is caught and the
\* rule issues are dropped.
StaticIssuesCaught(block, ruleList) ==
  LET ruled == runRules(block.code, block.language, ruleList)
  IN [threw |-> FALSE,
      issues |-> checkSyntax(block.code, block.language)
                   \o (IF ruled.threw THEN <<>> ELSE ruled.issues)]

StaticIssues(block, ruleList) ==
  LET ruled == runRules(block.code, block.language, ruleList)
  IN [threw |-> ruled.threw,
      issues |-> IF ruled.threw THEN <<>>
                 ELSE checkSyntax(block.code, block.language) \o ruled.issues]

\* A variant of ShouldExecute that does not look at the provider.
ShouldExecuteAnyway(provider, block) ==
  block.language # "unknown" /\ block.language \in EXECUTABLE_LANGUAGES

ShouldExecute(provider, block) ==
  /\ provider # "null"
  /\ block.language # "unknown"
  /\ block.language \in EXECUTABLE_LANGUAGES

\* The non-blank lines of stderr.
NonBlank(stderr) ==
  SelectLines(stderr, {"text", "at", "errorType", "errorInline"}, 1)

FirstOf(lines) == IF lines = <<>> THEN None ELSE Some(lines[1])

\* extractErrorLine: a line of kind errorType starts with "SomeError:", a
\* line of kind errorInline holds "Error:" elsewhere, a line of kind at is a
\* stack frame.
extractErrorLine(stderr, language) ==
  LET lines == NonBlank(stderr)
      pythonLine == FirstOf(SelectLines(lines, {"errorType"}, 1))
      nodeLine == FirstOf(SelectLines(lines, {"errorType", "errorInline"}, 1))
  IN IF language = "python" /\ pythonLine # None THEN pythonLine
     ELSE IF language \in {"javascript", "typescript"} /\ nodeLine # None THEN nodeLine
     ELSE IF lines = <<>> THEN None ELSE Some(lines[Len(lines)])

\* A variant of ExecutionIssues that reports stderr also when it is the error.
ExecutionIssuesWithStderr(execution, language) ==
  IF execution.success THEN <<>>
  ELSE <<Issue("execution", "error",
               IF execution.error = None THEN Msg("Code execution failed")
               ELSE execution.error[1],
               None, None)>>
       \o (IF /\ execution.stderr # <<>>
              /\ extractErrorLine(execution.stderr, language) # None
           THEN <<Issue("execution", "info",
                        <<extractErrorLine(execution.stderr, language)[1]>>, None, None)>>
           ELSE <<>>)

\* The issues verifyBlock pushes for an execution.
ExecutionIssues(execution, language) ==
  IF execution.success THEN <<>>
  ELSE <<Issue("execution", "error",
               IF execution.error = None THEN Msg("Code execution failed")
               ELSE execution.error[1],
               None, None)>>
       \o (IF /\ execution.stderr # <<>>
              /\ Some(execution.stderr) # execution.error
              /\ extractErrorLine(execution.stderr, language) # None
           THEN <<Issue("execution", "info",
                        <<extractErrorLine(execution.stderr, language)[1]>>, None, None)>>
           ELSE <<>>)

\* A variant of hasErrors that also counts warnings.
hasErrorsOrWarnings(issues) ==
  \E k \in 1..Len(issues) : issues[k].severity \in {"error", "warning"}

\* issues.some((i) => i.severity === "error")
hasErrors(issues) == \E k \in 1..Len(issues) : issues[k].severity = "error"

\* The CodeBlockResult verifyBlock returns; execution is optional.
CodeBlockResult(block, issues, execution) ==
  [block |-> block, passed |-> ~hasErrors(issues), issues |-> issues,
   execution |-> execution]

\* A variant of Executed that puts the execution issues first.
ExecutedFirst(block, staticIssues, execution) ==
  CodeBlockResult(block, ExecutionIssues(execution, block.language) \o staticIssues,
                  Some(execution))

\* verifyBlock after the sandbox returned.
Executed(block, staticIssues, execution) ==
  CodeBlockResult(block, staticIssues \o ExecutionIssues(execution, block.language),
                  Some(execution))

RECURSIVE flatMapIssues(_, _)
flatMapIssues(results, i) ==
  IF i > Len(results) THEN <<>>
  ELSE results[i].issues \o flatMapIssues(results, i + 1)

\* A variant of aggregateResults that counts a block as failed when it has
\* any issue.
aggregateByIssues(results, rulesChecked, provider) ==
  LET failedBlocks == Cardinality({i \in 1..Len(results) : results[i].issues # <<>>})
      passedBlocks == Len(results) - failedBlocks
  IN [passed |-> failedBlocks = 0,
      issues |-> flatMapIssues(results, 1),
      blocks |-> results,
      stats |-> [totalBlocks |-> Len(results), passedBlocks |-> passedBlocks,
                 failedBlocks |-> failedBlocks, rulesChecked |-> rulesChecked,
                 sandboxProvider |-> provider]]

aggregateResults(results, rulesChecked, provider) ==
  LET passedBlocks == Cardinality({i \in 1..Len(results) : results[i].passed})
      failedBlocks == Len(results) - passedBlocks
  IN [passed |-> failedBlocks = 0,
      issues |-> flatMapIssues(results, 1),
      blocks |-> results,
      stats |-> [totalBlocks |-> Len(results), passedBlocks |-> passedBlocks,
                 failedBlocks |-> failedBlocks, rulesChecked |-> rulesChecked,
                 sandboxProvider |-> provider]]

\* A variant of NoBlocks: verify without the early return.
NoEarlyReturn(bs) == FALSE

\* if (blocks.length === 0) return emptyResult(start)
NoBlocks(bs) == Len(bs) = 0

emptyResult ==
  [passed |-> TRUE, issues |-> <<>>, blocks |-> <<>>,
   stats |-> [totalBlocks |-> 0, passedBlocks |-> 0, failedBlocks |-> 0,
              rulesChecked |-> 0, sandboxProvider |-> "null"]]

\* ------------------------------------------------------------------------
\* Sandbox detection (sandbox/index.ts, docker.ts, e2b.ts)
\* ------------------------------------------------------------------------

\* How the probe `docker info` may end; a spawn error resolves with exit
\* code 1 because the probe is run quiet, and a probe killed when its
\* timeout elapses closes without an exit code, which is taken for 1.
ProbeOutcomes == {"exit0", "nonzero", "error", "timeout"}

\* A variant of isDockerAvailable that caches nothing but a success.
isDockerAvailableOnce(cache, probe) ==
  IF cache # "null"
  THEN [value |-> cache = "true", cache |-> cache, probed |-> FALSE]
  ELSE [value |-> probe = "exit0",
        cache |-> IF probe = "exit0" THEN "true" ELSE "null",
        probed |-> TRUE]

\* isDockerAvailable with the cache at `cache` ("null", "true" or "false"):
\* the value returned, the cache afterwards, and whether a probe was run.
isDockerAvailable(cache, probe) ==
  IF cache # "null"
  THEN [value |-> cache = "true", cache |-> cache, probed |-> FALSE]
  ELSE [value |-> probe = "exit0",
        cache |-> IF probe = "exit0" THEN "true" ELSE "false",
        probed |-> TRUE]

isE2BAvailable(environment) == environment.E2B_API_KEY /\ environment.e2bInstalled

Detected(threw, provider, docker) ==
  [threw |-> threw, provider |-> provider, cache |-> docker.cache, probed |-> docker.probed,
   value |-> docker.value]

NotProbed(cache) == [value |-> FALSE, cache |-> cache, probed |-> FALSE]

\* A variant of detectSandbox that falls back to the other provider, or to
\* none, when the preferred one is unavailable.
detectWithFallback(preference, cache, probe, environment) ==
  LET docker == isDockerAvailable(cache, probe)
  IN IF preference = Some("e2b") /\ isE2BAvailable(environment)
     THEN Detected(FALSE, "e2b", NotProbed(cache))
     ELSE IF docker.value THEN Detected(FALSE, "docker", docker)
     ELSE IF isE2BAvailable(environment) THEN Detected(FALSE, "e2b", docker)
     ELSE Detected(FALSE, "null", docker)

\* A variant of detectSandbox that tries E2B first when no preference is
\* given.
detectRemoteFirst(preference, cache, probe, environment) ==
  LET docker == isDockerAvailable(cache, probe)
  IN IF preference = Some("e2b")
     THEN IF isE2BAvailable(environment) THEN Detected(FALSE, "e2b", NotProbed(cache))
          ELSE Detected(TRUE, "null", NotProbed(cache))
     ELSE IF preference = Some("docker")
     THEN IF docker.value THEN Detected(FALSE, "docker", docker)
          ELSE Detected(TRUE, "null", docker)
     ELSE IF isE2BAvailable(environment) THEN Detected(FALSE, "e2b", docker)
     ELSE IF docker.value THEN Detected(FALSE, "docker", docker)
     ELSE Detected(FALSE, "null", docker)

\* detectSandbox(preference), preference optional.
detectSandbox(preference, cache, probe, environment) ==
  LET docker == isDockerAvailable(cache, probe)
  IN IF preference = Some("e2b")
     THEN IF isE2BAvailable(environment) THEN Detected(FALSE, "e2b", NotProbed(cache))
          ELSE Detected(TRUE, "null", NotProbed(cache))
     ELSE IF preference = Some("docker")
     THEN IF docker.value THEN Detected(FALSE, "docker", docker)
          ELSE Detected(TRUE, "null", docker)
     ELSE IF docker.value THEN Detected(FALSE, "docker", docker)
     ELSE IF isE2BAvailable(environment) THEN Detected(FALSE, "e2b", docker)
     ELSE Detected(FALSE, "null", docker)

\* A call of the detector: kind is "isDockerAvailable" or "detectSandbox",
\* expected the values the isDockerAvailable calls completed before it
\* started had returned, stale whether resetDockerCache was called since it
\* started, value what its isDockerAvailable returned ("none" when the
\* container engine was not asked about).
DetectorCall(kind, preference, expected, found) ==
  [kind |-> kind, preference |-> preference, expected |-> expected, stale |-> FALSE,
   probed |-> found.probed, probe |-> "none",
   value |-> IF preference = Some("e2b") THEN "none"
             ELSE IF found.value THEN "true" ELSE "false",
   threw |-> found.threw, provider |-> found.provider]

\* ------------------------------------------------------------------------
\* State
\* ------------------------------------------------------------------------

VARIABLES
  options,         \* the VerifyOptions of the call
  env,             \* process.env.E2B_API_KEY set, @e2b/code-interpreter installed
  dockerAvailable, \* docker.ts: the cached availability, "null" when not probed
  vpc,             \* where verify is: called, blocks, detected, join, cleanup,
                   \* resolved, rejected; "direct" when a provider is used directly
  blocks,          \* the resolved code blocks
  rules,           \* the resolved rule list
  sandbox,         \* the detected provider: "null", "docker" or "e2b"
  calls,           \* how often rules were resolved, detection was run, the
                   \* container engine was probed, a provider was created
  tpc,             \* per block task: idle, mkdtemp, writeFile, process, rm,
                   \* import, create, install, runCode, fulfilled, rejected
  tissues,         \* per block task: the syntax and rule issues found
  texec,           \* per block task: what run is returning or has returned
  terror,          \* per block task: the error it rejected with
  runs,            \* per block task: the number of run calls made for it
  blockResults,    \* the value slots of Promise.all
  result,          \* the VerifyResult verify resolves with
  error,           \* the error verify rejects with
  dirs,            \* per run: its scratch directory: none, exists, deleted, kept
  dockerArgs,      \* per run: the flags its container was started with
  thisSandbox,     \* E2BSandbox.sandbox: the session held, 0 for null
  sessions,        \* per run: the remote session it created: none, creating,
                   \* live, killed, killFailed
  tsession,        \* per run: the session its requests are sent on, 0 for none
  tinstall,        \* per run: the install list it was called with
  lastIndex,       \* per rule: the lastIndex of its regular expression
  invoked,         \* per rule: how often its predicate was called
  child,           \* runProcess: the child, the output captured, the result
  cleanups,        \* the number of cleanup() calls on the provider
  cleanupPc,       \* "killing" while cleanup awaits kill(), else "idle"
  killTarget,      \* the session cleanup is killing
  timedOut,        \* the runs whose process the spawn timeout killed
  dpc,             \* per detector call: idle, probing, done
  dcall,           \* per detector call: what was called and what it returned
  resets           \* the number of resetDockerCache() calls

verifyVars == <<options, vpc, blocks, rules, sandbox, calls, result, error>>
taskVars == <<tpc, tissues, texec, terror, runs, blockResults>>
dockerVars == <<dirs, dockerArgs>>
e2bVars == <<thisSandbox, sessions, tsession, cleanupPc, killTarget>>
detVars == <<dpc, dcall, resets>>
vars ==
  <<verifyVars, env, dockerAvailable, taskVars, dockerVars, e2bVars, cleanups, timedOut,
    detVars, tinstall, lastIndex, invoked, child>>

Tasks == DOMAIN tpc

\* ------------------------------------------------------------------------
\* The calls explored
\* ------------------------------------------------------------------------

SandboxOptions == {"undefined", "true", "false", "docker", "e2b"}

RulesOptions ==
  { RulesOption("false", "", <<>>),
    RulesOption("undefined", "", <<>>),
    RulesOption("custom", "", CustomRules),
    RulesOption("custom", "", <<>>) }

InstallOptions == {None, Some(<<"requests">>)}

LanguageOptions == {None, Some("py"), Some("cobol")}

Texts ==
  {Text(fenced, CleanCode) : fenced \in Picks(Document, MaxBlocks) \ {<<>>}}
    \cup {Text(<<>>, BlankCode), Text(<<>>, WhitespaceCode), Text(<<>>, TodoCode)}

\* The input sources of a call: exactly one, none, or several.
Inputs ==
  {[code |-> Some(c), text |-> None, file |-> None, language |-> l] :
     c \in {OpenCode, BoomCode}, l \in LanguageOptions}
    \cup {[code |-> None, text |-> Some(t), file |-> None, language |-> None] : t \in Texts}
    \cup {[code |-> None, text |-> None, file |-> Some(f), language |-> l] :
            f \in {".py", ".txt"}, l \in {None, Some("js")}}
    \cup {[code |-> c, text |-> t, file |-> f, language |-> None] :
            c \in {None, Some(CleanCode)},
            t \in {None, Some(Text(<<Block("python", CleanCode)>>, CleanCode))},
            f \in {None, Some(".py")}}

\* What readFile may do.
FileReads == {[ok |-> FALSE, content |-> BlankCode], [ok |-> TRUE, content |-> SecretCode]}

\* Whether the E2B credential is set and the E2B package installed.
AllEnvironments == [E2B_API_KEY : BOOLEAN, e2bInstalled : BOOLEAN]

NoTasks ==
  /\ tpc = <<>> /\ tissues = <<>> /\ texec = <<>> /\ terror = <<>> /\ runs = <<>>
  /\ blockResults = <<>> /\ dirs = <<>> /\ dockerArgs = <<>> /\ sessions = <<>>
  /\ tsession = <<>> /\ tinstall = <<>>

Init ==
  /\ \E in \in Inputs, s \in SandboxOptions, r \in RulesOptions, p \in InstallOptions :
       options = Options(in.code, in.text, in.file, in.language, s, r, p)
  /\ env \in AllEnvironments
  /\ dockerAvailable = "null"
  /\ vpc = "called"
  /\ blocks = <<>> /\ rules = <<>> /\ sandbox = "null"
  /\ calls = [resolveRules |-> 0, detect |-> 0, probe |-> 0, provider |-> 0]
  /\ NoTasks
  /\ result = None /\ error = None
  /\ thisSandbox = 0 /\ cleanups = 0 /\ cleanupPc = "idle" /\ killTarget = 0
  /\ timedOut = {} /\ dpc = <<>> /\ dcall = <<>> /\ resets = 0 /\ lastIndex = <<>> /\ invoked = <<>> /\ child = None

\* ------------------------------------------------------------------------
\* verify, up to the fan-out
\* ------------------------------------------------------------------------

\* Step 0 of verify: resolveInput, and the early return on zero blocks.
ResolveInput ==
  /\ vpc = "called"
  /\ \E fileRead \in FileReads :
       LET input == resolveInput(options, fileRead)
       IN /\ (options.file = None \/ InputCount(options) # 1) => fileRead.ok
          /\ IF input.threw
             THEN /\ vpc' = "rejected"
                  /\ error' = Some(input.error)
                  /\ UNCHANGED <<blocks, result>>
             ELSE IF NoBlocks(input.blocks)
             THEN /\ vpc' = "resolved"
                  /\ result' = Some(emptyResult)
                  /\ UNCHANGED <<blocks, error>>
             ELSE /\ vpc' = "blocks"
                  /\ blocks' = input.blocks
                  /\ UNCHANGED <<result, error>>
  /\ UNCHANGED <<options, rules, sandbox, calls, env, lastIndex, invoked, child, tinstall, detVars, timedOut, dockerAvailable, taskVars,
                 dockerVars, e2bVars, cleanups>>

\* Steps 1 and 2 of verify: resolveRules, then detectSandbox unless the
\* sandbox is disabled; an error of detectSandbox is swallowed.
DetectSandbox ==
  /\ vpc = "blocks"
  /\ rules' = resolveRules(options.rules)
  /\ LET sandboxPreference == resolveSandboxPreference(options.sandbox)
     IN IF sandboxPreference = "false"
        THEN /\ sandbox' = "null"
             /\ calls' = [calls EXCEPT !.resolveRules = @ + 1]
             /\ UNCHANGED <<dockerAvailable, detVars>>
        ELSE \E probe \in ProbeOutcomes :
               LET found == detectSandbox(IF sandboxPreference = "true" THEN None
                                          ELSE Some(sandboxPreference),
                                          dockerAvailable, probe, env)
               IN /\ found.probed \/ probe = "exit0"
                  /\ sandbox' = IF found.threw THEN "null" ELSE found.provider
                  /\ dpc' = <<"done">>
                  /\ dcall' = <<DetectorCall("detectSandbox",
                                             IF sandboxPreference = "true" THEN None
                                             ELSE Some(sandboxPreference), {}, found)>>
                  /\ UNCHANGED resets
                  /\ dockerAvailable' = found.cache
                  /\ calls' = [resolveRules |-> calls.resolveRules + 1,
                               detect |-> calls.detect + 1,
                               probe |-> calls.probe + (IF found.probed THEN 1 ELSE 0),
                               provider |-> calls.provider
                                            + (IF found.provider # "null" THEN 1 ELSE 0)]
  /\ vpc' = "detected"
  /\ UNCHANGED <<options, blocks, result, error, env, lastIndex, invoked, child, tinstall, timedOut, taskVars, dockerVars,
                 e2bVars, cleanups>>

\* ------------------------------------------------------------------------
\* verify: joining the block tasks, the finally block
\* ------------------------------------------------------------------------

\* What a run call returns or throws.
Returned(execution) == [threw |-> FALSE, result |-> execution, error |-> ""]
Threw(message) ==
  [threw |-> TRUE, result |-> ExecutionResult(FALSE, <<>>, <<>>, None, 1), error |-> message]

\* A variant of PlaceResult that fills the slots in the order of completion.
PlaceByCompletion(results, i, r) ==
  LET k == CHOOSE k \in 1..Len(results) :
             results[k] = None /\ \A j \in 1..(k - 1) : results[j] # None
  IN [results EXCEPT ![k] = Some(r)]

\* Promise.all keeps the value of the i-th promise in the i-th slot.
PlaceResult(results, i, r) == [results EXCEPT ![i] = Some(r)]

\* The values of Promise.all once every promise is fulfilled.
Values(results) == [i \in 1..Len(results) |-> results[i][1]]

\* A variant of CallsCleanup that cleans up on the success path only.
CallsCleanupOnSuccess(provider, raised) == provider # "null" /\ ~raised

\* try { ... } finally { if (sandbox) await sandbox.cleanup() }: whether
\* verify calls cleanup when the try block returned or raised.
CallsCleanup(provider, raised) == provider # "null"

\* The end of verify: the try block returned `res` or raised `err`; the
\* finally block runs cleanup, which for the E2B provider awaits kill() when
\* a session is held.  Docker's cleanup does nothing.
Finally(res, err) ==
  /\ result' = res
  /\ error' = err
  /\ IF CallsCleanup(sandbox, err # None)
     THEN /\ cleanups' = cleanups + 1
          /\ IF sandbox = "e2b" /\ thisSandbox # 0
             THEN /\ vpc' = "cleanup"
                  /\ cleanupPc' = "killing"
                  /\ killTarget' = thisSandbox
             ELSE /\ vpc' = IF err = None THEN "resolved" ELSE "rejected"
                  /\ UNCHANGED <<cleanupPc, killTarget>>
     ELSE /\ vpc' = IF err = None THEN "resolved" ELSE "rejected"
          /\ UNCHANGED <<cleanups, cleanupPc, killTarget>>

\* The continuation of verify once the block tasks stand at pcs, the slots of
\* Promise.all at results, and task `last` has just settled: Promise.all
\* rejects with the first rejection and is fulfilled when every task is.
Join(pcs, results, errors, last) ==
  IF last > 0 /\ pcs[last] = "rejected"
  THEN Finally(None, Some(errors[last]))
  ELSE IF \A i \in 1..Len(pcs) : pcs[i] = "fulfilled"
  THEN Finally(Some(aggregateResults(Values(results), Len(rules), sandbox)), None)
  ELSE /\ vpc' = "join"
       /\ UNCHANGED <<result, error, cleanups, cleanupPc, killTarget>>

\* The block tasks once the run call of task i returned or threw `outcome`:
\* verifyBlock adds the execution issues and returns, or rejects.
Settlement(i, outcome) ==
  [pcs |-> [tpc EXCEPT ![i] = IF outcome.threw THEN "rejected" ELSE "fulfilled"],
   errors |-> [terror EXCEPT ![i] = outcome.error],
   results |-> IF outcome.threw \/ vpc = "direct" THEN blockResults
               ELSE PlaceResult(blockResults, i,
                                Executed(blocks[i], tissues[i], outcome.result))]

\* The run call of task i returns or throws `outcome`, and the caller goes
\* on: verifyBlock adds the execution issues and returns, or rejects, and
\* verify goes on when it is waiting for the block tasks.
RunSettles(i, outcome) ==
  \E settled \in {Settlement(i, outcome)} :
     /\ tpc' = settled.pcs
     /\ terror' = settled.errors
     /\ texec' = [texec EXCEPT ![i] = Some(outcome)]
     /\ blockResults' = settled.results
     /\ IF vpc = "join" THEN Join(settled.pcs, settled.results, settled.errors, i)
        ELSE UNCHANGED <<vpc, result, error, cleanups, cleanupPc, killTarget>>

\* ------------------------------------------------------------------------
\* The start of a run call
\* ------------------------------------------------------------------------

E2B_LANGUAGES == {"python", "javascript", "typescript"}

Supports(provider, language) ==
  IF provider = "docker" THEN language \in DOCKER_IMAGES ELSE language \in E2B_LANGUAGES

Unsupported(provider, language) ==
  IF provider = "docker" THEN DockerUnsupported(language) ELSE E2BUnsupported(language)

\* Where a run call for a supported language stands at its first suspension:
\* the Docker provider awaits mkdtemp; the E2B provider's getSandbox awaits
\* the import of its dependency, or, when a session is held, returns it and
\* run awaits its first request on it.
RunStart(provider, install, session) ==
  IF provider = "docker" THEN "mkdtemp"
  ELSE IF session = 0 THEN "import"
  ELSE IF needsNetwork(install) THEN "install"
  ELSE "runCode"

\* ------------------------------------------------------------------------
\* verify: the fan-out
\* ------------------------------------------------------------------------

\* Step 3 of verify: blocks.map(verifyBlock) runs every verifyBlock up to its
\* first suspension, in block order; a block that is not executed is done at
\* once, and a throwing rule predicate rejects its task at once.
BlockTasks ==
  LET n == Len(blocks)
      static == [i \in 1..n |-> StaticIssues(blocks[i], rules)]
      executes == [i \in 1..n |-> ~static[i].threw /\ ShouldExecute(sandbox, blocks[i])]
      suspends == [i \in 1..n |-> executes[i] /\ Supports(sandbox, blocks[i].language)]
      pcs == [i \in 1..n |->
                IF static[i].threw THEN "rejected"
                ELSE IF suspends[i] THEN RunStart(sandbox, options.install, thisSandbox)
                ELSE "fulfilled"]
      returned == [i \in 1..n |->
                     IF executes[i] /\ ~suspends[i]
                     THEN Some(Returned(Unsupported(sandbox, blocks[i].language)))
                     ELSE None]
      results == [i \in 1..n |->
                    IF pcs[i] # "fulfilled" THEN None
                    ELSE IF returned[i] # None
                    THEN Some(Executed(blocks[i], static[i].issues, returned[i][1].result))
                    ELSE Some(CodeBlockResult(blocks[i], static[i].issues, None))]
      rejected == {i \in 1..n : pcs[i] = "rejected"}
  IN [pcs |-> pcs,
      issues |-> [i \in 1..n |-> static[i].issues],
      returned |-> returned,
      errors |-> [i \in 1..n |-> IF static[i].threw THEN "rule predicate threw" ELSE ""],
      runs |-> [i \in 1..n |-> IF executes[i] THEN 1 ELSE 0],
      results |-> results,
      first |-> IF rejected = {} THEN n
                ELSE CHOOSE i \in rejected : \A j \in rejected : i <= j]

\* Step 3 of verify: the block tasks start, and verify waits for them or,
\* when none suspended, goes on at once.
VerifyBlocks ==
  /\ vpc = "detected"
  /\ \E started \in {BlockTasks} :
       /\ tpc' = started.pcs
       /\ tissues' = started.issues
       /\ texec' = started.returned
       /\ terror' = started.errors
       /\ runs' = started.runs
       /\ blockResults' = started.results
       /\ dirs' = [i \in DOMAIN started.pcs |-> "none"]
       /\ dockerArgs' = [i \in DOMAIN started.pcs |-> None]
       /\ sessions' = [i \in DOMAIN started.pcs |-> "none"]
       /\ tsession' = [i \in DOMAIN started.pcs |->
                         IF started.pcs[i] \in {"install", "runCode"}
                         THEN thisSandbox ELSE 0]
       /\ tinstall' = [i \in DOMAIN started.pcs |-> options.install]
       /\ Join(started.pcs, started.results, started.errors, started.first)
  /\ UNCHANGED <<options, blocks, rules, sandbox, calls, env, lastIndex, invoked, child, detVars, timedOut,
                 dockerAvailable, thisSandbox>>

\* ------------------------------------------------------------------------
\* DockerSandbox.run
\* ------------------------------------------------------------------------

\* mkdtemp settles: the scratch directory exists, and writeFile is awaited;
\* or mkdtemp failed and run rejects.
Mkdtemp(i) ==
  /\ tpc[i] = "mkdtemp"
  /\ \/ /\ dirs' = [dirs EXCEPT ![i] = "exists"]
        /\ tpc' = [tpc EXCEPT ![i] = "writeFile"]
        /\ UNCHANGED <<texec, terror, blockResults, vpc, result, error, cleanups,
                       cleanupPc, killTarget>>
     \/ /\ RunSettles(i, Threw("mkdtemp failed"))
        /\ UNCHANGED dirs
  /\ UNCHANGED <<options, blocks, rules, sandbox, calls, env, lastIndex, invoked, child, tinstall, detVars, timedOut,
                 dockerAvailable, tissues,
                 runs, dockerArgs, thisSandbox, sessions, tsession>>

\* writeFile settles: the container is started, with networking only when
\* packages are to be installed; or writeFile failed, and the finally block
\* awaits rm before run rejects.
WriteFile(i) ==
  /\ tpc[i] = "writeFile"
  /\ \/ /\ tpc' = [tpc EXCEPT ![i] = "process"]
        /\ dockerArgs' = [dockerArgs EXCEPT ![i] =
                            Some(buildDockerArgs(needsNetwork(tinstall[i])))]
        /\ UNCHANGED texec
     \/ /\ tpc' = [tpc EXCEPT ![i] = "rm"]
        /\ texec' = [texec EXCEPT ![i] = Some(Threw("writeFile failed"))]
        /\ UNCHANGED dockerArgs
  /\ UNCHANGED <<verifyVars, env, lastIndex, invoked, child, tinstall, detVars, timedOut, dockerAvailable, tissues, terror, runs,
                 blockResults,
                 dirs, e2bVars, cleanups>>

\* runProcess settles: the child closed (after exiting, or after the output
\* cap killed it), or it could not be spawned and runProcess rejects; the
\* finally block awaits rm.  The program may also never exit.
ProcessEnds(i) ==
  /\ tpc[i] = "process"
  /\ \E outcome \in {Returned(DockerResult(p)) : p \in ProcessResults(blocks[i].code)}
                      \cup {Threw("spawn docker failed")} :
       texec' = [texec EXCEPT ![i] = Some(outcome)]
  /\ tpc' = [tpc EXCEPT ![i] = "rm"]
  /\ UNCHANGED <<verifyVars, env, lastIndex, invoked, child, tinstall, detVars, timedOut, dockerAvailable, tissues, terror, runs,
                 blockResults,
                 dockerVars, e2bVars, cleanups>>

\* The seconds a run may take when the caller gives no timeout.
DefaultTimeout == 30

\* The timeout option runProcess hands to spawn for a run, in milliseconds.
spawnTimeout(timeout) == (timeout + 10) * 1000

\* A variant of KillTimerArmed: spawn without a timeout.
NoKillTimer(ms) == FALSE

\* spawn kills the child with SIGTERM once a positive timeout has elapsed.
KillTimerArmed(ms) == ms > 0

\* The spawn timeout elapses while the program is still running: the child
\* is killed and closes without an exit code; the finally block awaits rm.
Timeout(i) ==
  /\ tpc[i] = "process"
  /\ KillTimerArmed(spawnTimeout(DefaultTimeout))
  /\ texec' = [texec EXCEPT ![i] =
                 Some(Returned(DockerResult(ProcessResult(Msg(blocks[i].code.name), <<>>,
                                                          None))))]
  /\ tpc' = [tpc EXCEPT ![i] = "rm"]
  /\ timedOut' = timedOut \cup {i}
  /\ UNCHANGED <<verifyVars, env, lastIndex, invoked, child, tinstall, detVars, dockerAvailable, tissues, terror, runs,
                 blockResults, dockerVars, e2bVars, cleanups>>

\* A variant of AfterRm: rm leaves the directory in place.
RmLeaves(removed) == "exists"

\* The scratch directory after rm settled: deleted, or kept when rm failed.
AfterRm(removed) == IF removed THEN "deleted" ELSE "kept"

\* rm settles, its failure swallowed, and run returns or rejects.
Rm(i) ==
  /\ tpc[i] = "rm"
  /\ \E removed \in BOOLEAN : dirs' = [dirs EXCEPT ![i] = AfterRm(removed)]
  /\ RunSettles(i, texec[i][1])
  /\ UNCHANGED <<options, blocks, rules, sandbox, calls, env, lastIndex, invoked, child, tinstall, detVars, timedOut,
                 dockerAvailable, tissues,
                 runs, dockerArgs, thisSandbox, sessions, tsession>>

\* ------------------------------------------------------------------------
\* E2BSandbox.run, getSandbox and cleanup
\* ------------------------------------------------------------------------

\* getSandbox: the import of @e2b/code-interpreter settles.  It fails when
\* the package is not installed; then the credential is read, and its
\* absence throws; both errors are caught by run.  Otherwise
\* Sandbox.create is awaited.
Import(i) ==
  /\ tpc[i] = "import"
  /\ IF ~env.e2bInstalled
     THEN /\ RunSettles(i, Returned(E2BCaught("Cannot find package @e2b/code-interpreter")))
          /\ UNCHANGED sessions
     ELSE IF ~env.E2B_API_KEY
     THEN /\ RunSettles(i, Returned(E2BCaught("E2B_API_KEY environment variable is required")))
          /\ UNCHANGED sessions
     ELSE /\ tpc' = [tpc EXCEPT ![i] = "create"]
          /\ sessions' = [sessions EXCEPT ![i] = "creating"]
          /\ UNCHANGED <<texec, terror, blockResults, vpc, result, error, cleanups,
                         cleanupPc, killTarget>>
  /\ UNCHANGED <<options, blocks, rules, sandbox, calls, env, lastIndex, invoked, child, tinstall, detVars, timedOut,
                 dockerAvailable, tissues,
                 runs, dockerVars, thisSandbox, tsession>>

\* getSandbox: Sandbox.create settles.  The new session is stored in
\* this.sandbox and returned, and run sends its first request on it: the
\* install command when packages are asked for, else the code.  A failed
\* creation is caught by run.
Create(i) ==
  /\ tpc[i] = "create"
  /\ \/ /\ sessions' = [sessions EXCEPT ![i] = "live"]
        /\ thisSandbox' = i
        /\ tsession' = [tsession EXCEPT ![i] = i]
        /\ tpc' = [tpc EXCEPT ![i] =
                     IF needsNetwork(tinstall[i]) THEN "install" ELSE "runCode"]
        /\ UNCHANGED <<texec, terror, blockResults, vpc, result, error, cleanups,
                       cleanupPc, killTarget>>
     \/ /\ sessions' = [sessions EXCEPT ![i] = "none"]
        /\ RunSettles(i, Returned(E2BCaught("Sandbox.create failed")))
        /\ UNCHANGED <<thisSandbox, tsession>>
  /\ UNCHANGED <<options, blocks, rules, sandbox, calls, env, lastIndex, invoked, child, tinstall, detVars, timedOut,
                 dockerAvailable, tissues,
                 runs, dockerVars>>

\* The install request settles: its result is ignored and the code is sent,
\* or it threw and run catches the error.
Install(i) ==
  /\ tpc[i] = "install"
  /\ \/ /\ tpc' = [tpc EXCEPT ![i] = "runCode"]
        /\ UNCHANGED <<texec, terror, blockResults, vpc, result, error, cleanups,
                       cleanupPc, killTarget>>
     \/ RunSettles(i, Returned(E2BCaught("runCode failed")))
  /\ UNCHANGED <<options, blocks, rules, sandbox, calls, env, lastIndex, invoked, child, tinstall, detVars, timedOut,
                 dockerAvailable, tissues,
                 runs, dockerVars, thisSandbox, sessions, tsession>>

\* The code request settles with a result, or throws and run catches it.
RunCode(i) ==
  /\ tpc[i] = "runCode"
  /\ \E outcome \in {E2BResult(r) : r \in RunCodeResults(blocks[i].code)}
                      \cup {E2BCaught("runCode failed")} :
       RunSettles(i, Returned(outcome))
  /\ UNCHANGED <<options, blocks, rules, sandbox, calls, env, lastIndex, invoked, child, tinstall, detVars, timedOut,
                 dockerAvailable, tissues,
                 runs, dockerVars, thisSandbox, sessions, tsession>>

\* cleanup: kill() settles, its failure swallowed; this.sandbox is set to
\* null, and verify, when it is the caller, settles.
\* A variant of AfterKill: cleanup keeps the session it has torn down.
SessionKept(held) == held

\* this.sandbox = null, whatever kill() did and whatever is held by now.
AfterKill(held) == 0

KillSettles ==
  /\ cleanupPc = "killing"
  /\ \E killed \in BOOLEAN :
       sessions' = [sessions EXCEPT ![killTarget] = IF killed THEN "killed" ELSE "killFailed"]
  /\ thisSandbox' = AfterKill(thisSandbox)
  /\ cleanupPc' = "idle"
  /\ killTarget' = 0
  /\ vpc' = IF vpc # "cleanup" THEN vpc ELSE IF error = None THEN "resolved" ELSE "rejected"
  /\ UNCHANGED <<options, blocks, rules, sandbox, calls, result, error, env, lastIndex, invoked, child, tinstall, detVars, timedOut,
                 dockerAvailable, taskVars, dockerVars, tsession, cleanups>>

\* ------------------------------------------------------------------------
\* A provider used directly
\* ------------------------------------------------------------------------

\* The install lists of the run calls made on a provider used directly:
\* absent, empty, or naming a package.
RunInstalls == InstallOptions \cup {Some(<<>>)}

\* A caller calls run on the provider: blocks[i] is the code and the
\* language of the i-th call; every call has its own install list.
CallRun(i) ==
  /\ vpc = "direct"
  /\ tpc[i] = "idle"
  /\ runs' = [runs EXCEPT ![i] = @ + 1]
  /\ \E install \in RunInstalls : tinstall' = [tinstall EXCEPT ![i] = install]
  /\ IF Supports(sandbox, blocks[i].language)
     THEN /\ tpc' = [tpc EXCEPT ![i] = RunStart(sandbox, tinstall'[i], thisSandbox)]
          /\ tsession' = [tsession EXCEPT ![i] =
                            IF sandbox = "e2b" THEN thisSandbox ELSE 0]
          /\ UNCHANGED <<texec, terror, blockResults, vpc, result, error, cleanups,
                         cleanupPc, killTarget>>
     ELSE /\ RunSettles(i, Returned(Unsupported(sandbox, blocks[i].language)))
          /\ UNCHANGED tsession
  /\ UNCHANGED <<options, blocks, rules, sandbox, calls, env, lastIndex, invoked, child, detVars, timedOut,
                 dockerAvailable, tissues,
                 dockerVars, thisSandbox, sessions>>

\* A caller calls cleanup on the provider, no other cleanup being under way.
CallCleanup ==
  /\ vpc = "direct"
  /\ cleanupPc = "idle"
  /\ cleanups < MaxCleanups
  /\ cleanups' = cleanups + 1
  /\ IF sandbox = "e2b" /\ thisSandbox # 0
     THEN cleanupPc' = "killing" /\ killTarget' = thisSandbox
     ELSE UNCHANGED <<cleanupPc, killTarget>>
  /\ UNCHANGED <<verifyVars, env, lastIndex, invoked, child, tinstall, detVars, timedOut, dockerAvailable, taskVars, dockerVars,
                 thisSandbox,
                 sessions, tsession>>

\* The run calls made on a provider used directly.
Requests == Picks(Document, MaxCallers) \ {<<>>}

\* A provider constructed by the caller (new DockerSandbox(), new
\* E2BSandbox()), whatever the environment.
InitProvider ==
  /\ options = Options(None, None, None, None, "undefined", RulesOption("false", "", <<>>),
                       None)
  /\ env \in AllEnvironments
  /\ dockerAvailable = "null"
  /\ vpc = "direct"
  /\ blocks \in Requests
  /\ rules = <<>>
  /\ sandbox \in {"docker", "e2b"}
  /\ calls = [resolveRules |-> 0, detect |-> 0, probe |-> 0, provider |-> 1]
  /\ tpc = [i \in 1..Len(blocks) |-> "idle"]
  /\ tissues = [i \in 1..Len(blocks) |-> <<>>]
  /\ texec = [i \in 1..Len(blocks) |-> None]
  /\ terror = [i \in 1..Len(blocks) |-> ""]
  /\ runs = [i \in 1..Len(blocks) |-> 0]
  /\ blockResults = [i \in 1..Len(blocks) |-> None]
  /\ dirs = [i \in 1..Len(blocks) |-> "none"]
  /\ dockerArgs = [i \in 1..Len(blocks) |-> None]
  /\ sessions = [i \in 1..Len(blocks) |-> "none"]
  /\ tsession = [i \in 1..Len(blocks) |-> 0]
  /\ tinstall = [i \in 1..Len(blocks) |-> None]
  /\ result = None /\ error = None
  /\ thisSandbox = 0 /\ cleanups = 0 /\ cleanupPc = "idle" /\ killTarget = 0
  /\ timedOut = {} /\ dpc = <<>> /\ dcall = <<>> /\ resets = 0 /\ lastIndex = <<>> /\ invoked = <<>> /\ child = None

\* ------------------------------------------------------------------------
\* The detector used directly: isDockerAvailable, detectSandbox,
\* resetDockerCache
\* ------------------------------------------------------------------------

DetectorCalls == DOMAIN dpc

\* What callers ask of the detector.
DetectorRequests ==
  {[kind |-> "isDockerAvailable", preference |-> None]}
    \cup {[kind |-> "detectSandbox", preference |-> p] :
            p \in {None, Some("docker"), Some("e2b")}}

\* What the call answers once isDockerAvailable, if called, has seen `probe`
\* with the cache at `cache`.
Answer(request, cache, probe) ==
  IF request.kind = "isDockerAvailable"
  THEN Detected(FALSE, "null", isDockerAvailable(cache, probe))
  ELSE detectSandbox(request.preference, cache, probe, env)

\* The values returned by the isDockerAvailable calls completed since the
\* last resetDockerCache.
ReturnedSinceReset ==
  {dcall[k].value : k \in {j \in DetectorCalls : dpc[j] = "done" /\ ~dcall[j].stale}}
    \ {"none"}

\* A caller calls isDockerAvailable or detectSandbox; the calls are numbered
\* in the order in which they are made.  With a preference for
\* E2B the container engine is not asked about; with the cache set
\* isDockerAvailable returns it; else the probe is started and awaited.
StartCall(c) ==
  /\ vpc = "detector"
  /\ dpc[c] = "idle"
  /\ \A k \in 1..(c - 1) : dpc[k] # "idle"
  /\ \E request \in DetectorRequests :
       IF request.preference # Some("e2b") /\ dockerAvailable = "null"
       THEN /\ dpc' = [dpc EXCEPT ![c] = "probing"]
            /\ dcall' = [dcall EXCEPT ![c] =
                           [kind |-> request.kind, preference |-> request.preference,
                            expected |-> ReturnedSinceReset, stale |-> FALSE,
                            probe |-> "none",
                            probed |-> TRUE, value |-> "none", threw |-> FALSE,
                            provider |-> "null"]]
       ELSE /\ dpc' = [dpc EXCEPT ![c] = "done"]
            /\ dcall' = [dcall EXCEPT ![c] =
                           DetectorCall(request.kind, request.preference,
                                        ReturnedSinceReset,
                                        Answer(request, dockerAvailable, "exit0"))]
  /\ UNCHANGED <<verifyVars, env, lastIndex, invoked, child, tinstall, dockerAvailable, taskVars, dockerVars, e2bVars,
                 cleanups, timedOut, resets>>

\* The probe of call c ends: isDockerAvailable stores its result in the
\* cache, without looking at the cache again, and returns the cache.
ProbeEnds(c) ==
  /\ dpc[c] = "probing"
  /\ \E probe \in ProbeOutcomes :
       LET found == Answer(dcall[c], "null", probe)
       IN /\ dockerAvailable' = found.cache
          /\ dcall' = [dcall EXCEPT ![c] =
                         [DetectorCall(dcall[c].kind, dcall[c].preference,
                                       dcall[c].expected, found)
                            EXCEPT !.stale = dcall[c].stale, !.probe = probe]]
  /\ dpc' = [dpc EXCEPT ![c] = "done"]
  /\ UNCHANGED <<verifyVars, env, lastIndex, invoked, child, tinstall, taskVars, dockerVars, e2bVars, cleanups, timedOut,
                 resets>>

\* resetDockerCache()
ResetDockerCache ==
  /\ vpc = "detector"
  /\ resets < MaxResets
  /\ resets' = resets + 1
  /\ dockerAvailable' = "null"
  /\ dcall' = [c \in DetectorCalls |-> [dcall[c] EXCEPT !.stale = TRUE]]
  /\ UNCHANGED <<verifyVars, env, lastIndex, invoked, child, tinstall, taskVars, dockerVars, e2bVars, cleanups, timedOut,
                 dpc>>

\* A process in which the detector has not been used yet.
InitDetector ==
  /\ options = Options(None, None, None, None, "undefined", RulesOption("false", "", <<>>),
                       None)
  /\ env \in AllEnvironments
  /\ dockerAvailable = "null"
  /\ vpc = "detector"
  /\ blocks = <<>> /\ rules = <<>> /\ sandbox = "null"
  /\ calls = [resolveRules |-> 0, detect |-> 0, probe |-> 0, provider |-> 0]
  /\ NoTasks
  /\ result = None /\ error = None
  /\ thisSandbox = 0 /\ cleanups = 0 /\ cleanupPc = "idle" /\ killTarget = 0
  /\ timedOut = {}
  /\ dpc = [c \in 1..MaxDetections |-> "idle"]
  /\ dcall = [c \in 1..MaxDetections |->
               [kind |-> "isDockerAvailable", preference |-> None, expected |-> {},
                stale |-> FALSE, probed |-> FALSE, probe |-> "none", value |-> "none",
                threw |-> FALSE,
                provider |-> "null"]]
  /\ resets = 0
  /\ lastIndex = <<>> /\ invoked = <<>> /\ child = None

\* ------------------------------------------------------------------------
\* Specifications
\* ------------------------------------------------------------------------

ProviderStep ==
  \/ \E i \in Tasks : Mkdtemp(i)
  \/ \E i \in Tasks : WriteFile(i)
  \/ \E i \in Tasks : ProcessEnds(i)
  \/ \E i \in Tasks : Timeout(i)
  \/ \E i \in Tasks : Rm(i)
  \/ \E i \in Tasks : Import(i)
  \/ \E i \in Tasks : Create(i)
  \/ \E i \in Tasks : Install(i)
  \/ \E i \in Tasks : RunCode(i)
  \/ KillSettles

\* One verify call.
Next ==
  \/ ResolveInput
  \/ DetectSandbox
  \/ VerifyBlocks
  \/ ProviderStep

Spec == Init /\ [][Next]_vars

\* One provider instance used directly by its callers.
\* The caller of a provider sets process.env.E2B_API_KEY.
SetCredential ==
  /\ vpc = "direct"
  /\ ~env.E2B_API_KEY
  /\ env' = [env EXCEPT !.E2B_API_KEY = TRUE]
  /\ UNCHANGED <<verifyVars, dockerAvailable, taskVars, dockerVars, e2bVars, cleanups,
                 timedOut, detVars, tinstall, lastIndex, invoked, child>>

NextProvider ==
  \/ \E i \in Tasks : CallRun(i)
  \/ CallCleanup
  \/ SetCredential
  \/ ProviderStep

SpecProvider == InitProvider /\ [][NextProvider]_vars

\* The steps that settle once they are awaited: all of them but the exit of
\* the executed program, which may never come.
SettlingStep ==
  \/ ResolveInput
  \/ DetectSandbox
  \/ VerifyBlocks
  \/ \E i \in Tasks : Mkdtemp(i) \/ WriteFile(i) \/ Timeout(i) \/ Rm(i)
  \/ \E i \in Tasks : Import(i) \/ Create(i) \/ Install(i) \/ RunCode(i)
  \/ KillSettles

\* One verify call in which every step that is awaited settles, except that
\* the executed program need not exit by itself.
FairSpec == Spec /\ WF_vars(SettlingStep)

\* ------------------------------------------------------------------------
\* The static checks used directly: checkSyntax and runRules
\* ------------------------------------------------------------------------

\* The rule lists the static checks are run with: the built-in rules and
\* rules of a caller whose regular expressions are global, sticky or neither.
RuleLists ==
  {<<>>, allBuiltinRules, <<Flagged(noSqlInjection, "y"), Flagged(noEval, "g")>>,
   <<secretsTwice, noEval>>, <<fragileRule, noHardcodedSecrets>>}
    \cup {<<Flagged(noEval, flags), fragileRule>> : flags \in {"", "g", "y"}}

\* A caller runs the syntax heuristics and the rule engine on blocks[1] with
\* the rules, for the k-th time; the runs are synchronous, one after the
\* other.  tissues[k] are the issues of the k-th run, terror[k] its error.
RunChecks(k) ==
  /\ vpc = "rules"
  /\ tpc[k] = "idle"
  /\ \A j \in 1..(k - 1) : tpc[j] # "idle"
  /\ \E ruled \in {runRulesAt(blocks[1].code, blocks[1].language, rules, lastIndex, 1)} :
       /\ lastIndex' = ruled.lastIndex
       /\ invoked' = [j \in 1..Len(rules) |-> invoked[j] + ruled.invoked[j]]
       /\ tpc' = [tpc EXCEPT ![k] = IF ruled.threw THEN "rejected" ELSE "fulfilled"]
       /\ terror' = [terror EXCEPT ![k] = IF ruled.threw THEN "rule predicate threw" ELSE ""]
       /\ tissues' = [tissues EXCEPT ![k] =
                        IF ruled.threw THEN <<>>
                        ELSE checkSyntax(blocks[1].code, blocks[1].language)
                               \o ruled.issues]
  /\ UNCHANGED <<verifyVars, env, tinstall, detVars, timedOut, dockerAvailable, texec, runs,
                 blockResults, dockerVars, e2bVars, cleanups, child>>

\* The rules are new: the lastIndex of every regular expression is 0.
InitRules ==
  /\ options = Options(None, None, None, None, "false", RulesOption("false", "", <<>>),
                       None)
  /\ env \in {e \in AllEnvironments : ~e.e2bInstalled /\ ~e.E2B_API_KEY}
  /\ dockerAvailable = "null"
  /\ vpc = "rules"
  /\ \E l \in Languages \cup {"unknown"},
        c \in {CleanCode, TodoCode, OpenCode, SecretCode, BoomCode, EvalCode, BlankCode} :
       blocks = <<Block(l, c)>>
  /\ rules \in RuleLists
  /\ sandbox = "null"
  /\ calls = [resolveRules |-> 0, detect |-> 0, probe |-> 0, provider |-> 0]
  /\ tpc = <<"idle", "idle">>
  /\ tissues = <<<<>>, <<>>>>
  /\ texec = <<None, None>>
  /\ terror = <<"", "">>
  /\ runs = <<0, 0>>
  /\ blockResults = <<None, None>>
  /\ dirs = <<"none", "none">>
  /\ dockerArgs = <<None, None>>
  /\ sessions = <<"none", "none">>
  /\ tsession = <<0, 0>>
  /\ tinstall = <<None, None>>
  /\ result = None /\ error = None
  /\ thisSandbox = 0 /\ cleanups = 0 /\ cleanupPc = "idle" /\ killTarget = 0
  /\ timedOut = {} /\ dpc = <<>> /\ dcall = <<>> /\ resets = 0
  /\ lastIndex = [k \in 1..Len(rules) |-> 0]
  /\ invoked = [k \in 1..Len(rules) |-> 0]
  /\ child = None

NextRules == \E k \in Tasks : RunChecks(k)

SpecRules == InitRules /\ [][NextRules]_vars

\* ------------------------------------------------------------------------
\* defineRule and the rules it returned
\* ------------------------------------------------------------------------

\* What a caller may pass to defineRule: id, name, message and severity are
\* missing, empty or given; languages, pattern and check are optional.
RuleCandidates ==
  [id : {None, Some(""), Some("custom/rule")},
   name : {None, Some(""), Some("Custom")},
   message : {None, Some(""), Some("found")},
   severity : {None, Some(""), Some("error")},
   languages : {None, Some({"python"})},
   pattern : {None, Some({"eval"})},
   check : {None, Some("incomplete")}]

\* !rule.id and the like: undefined and the empty string are falsy.
Falsy(field) == field = None \/ field = Some("")

\* defineRule: the error it throws, or the rule it returns, frozen.
defineRule(rule) ==
  IF Falsy(rule.id) THEN [threw |-> TRUE, error |-> "Rule must have an id"]
  ELSE IF Falsy(rule.name) THEN [threw |-> TRUE, error |-> "Rule must have a name"]
  ELSE IF Falsy(rule.message) THEN [threw |-> TRUE, error |-> "Rule must have a message"]
  ELSE IF Falsy(rule.severity) THEN [threw |-> TRUE, error |-> "Rule must have a severity"]
  ELSE IF rule.pattern = None /\ rule.check = None
  THEN [threw |-> TRUE, error |-> "Rule must have either a pattern or a check function"]
  ELSE [threw |-> FALSE, error |-> "", rule |-> rule]

\* A caller calls defineRule; `rules` are the rules returned so far.
DefineRule ==
  /\ vpc = "define"
  /\ Len(rules) < MaxDefined
  /\ \E candidate \in RuleCandidates :
       LET defined == defineRule(candidate)
       IN IF defined.threw
          THEN error' = Some(defined.error) /\ UNCHANGED rules
          ELSE error' = None /\ rules' = Append(rules, defined.rule)
  /\ UNCHANGED <<options, vpc, blocks, sandbox, calls, result, env, tinstall, lastIndex, invoked, child,
                 detVars, timedOut, dockerAvailable, taskVars, dockerVars, e2bVars, cleanups>>

\* A caller assigns to a property of a rule defineRule returned: the rule
\* is frozen, and in module code the assignment throws a TypeError.
AssignProperty(k) ==
  /\ vpc = "define"
  /\ error' = Some("TypeError: Cannot assign to read only property")
  /\ UNCHANGED <<options, vpc, blocks, rules, sandbox, calls, result, env, tinstall,
                 lastIndex, invoked, child, detVars, timedOut, dockerAvailable, taskVars, dockerVars,
                 e2bVars, cleanups>>

\* A caller pushes a language onto the languages array of a rule defineRule
\* returned: Object.freeze froze the rule, not the objects it refers to.
PushLanguage(k) ==
  /\ vpc = "define"
  /\ rules[k].languages # None
  /\ \E l \in Languages \ rules[k].languages[1] :
       rules' = [rules EXCEPT ![k].languages = Some(@[1] \cup {l})]
  /\ error' = None
  /\ UNCHANGED <<options, vpc, blocks, sandbox, calls, result, env, tinstall, lastIndex, invoked, child,
                 detVars, timedOut, dockerAvailable, taskVars, dockerVars, e2bVars, cleanups>>

InitDefine ==
  /\ options = Options(None, None, None, None, "false", RulesOption("false", "", <<>>),
                       None)
  /\ env \in {e \in AllEnvironments : ~e.e2bInstalled /\ ~e.E2B_API_KEY}
  /\ dockerAvailable = "null"
  /\ vpc = "define"
  /\ blocks = <<>> /\ rules = <<>> /\ sandbox = "null"
  /\ calls = [resolveRules |-> 0, detect |-> 0, probe |-> 0, provider |-> 0]
  /\ NoTasks
  /\ result = None /\ error = None
  /\ thisSandbox = 0 /\ cleanups = 0 /\ cleanupPc = "idle" /\ killTarget = 0
  /\ timedOut = {} /\ dpc = <<>> /\ dcall = <<>> /\ resets = 0 /\ lastIndex = <<>> /\ invoked = <<>> /\ child = None

NextDefine ==
  \/ DefineRule
  \/ \E k \in 1..Len(rules) : AssignProperty(k)
  \/ \E k \in 1..Len(rules) : PushLanguage(k)

SpecDefine == InitDefine /\ [][NextDefine]_vars

\* ------------------------------------------------------------------------
\* runProcess, the output it captures (e2b-shim.d.ts)
\* ------------------------------------------------------------------------

\* Output is counted in units of 512 KiB: the cap of 1_048_576 characters.
OutputCap == 2

\* The largest piece of output one data event brings, and the output after
\* which the exploration stops.
MaxChunk == 2
MaxOutput == 6

\* The child of a run: what was captured of each stream, whether kill
\* ("SIGTERM") was called, whether the program ends on that signal, and the
\* ExecutionResult of the run once the child has closed.
Child(stdout, stderr, signalled, obeys, exec) ==
  [stdout |-> stdout, stderr |-> stderr, signalled |-> signalled, obeys |-> obeys,
   exec |-> exec]

Running == child # None /\ child[1].exec = None

\* The program writes on while it runs: until it exits, and no further than
\* a signal that ends it.
Writing == Running /\ ~(child[1].signalled /\ child[1].obeys)

\* child.stdout.on("data"): the data is appended, and the child is sent
\* SIGTERM when the captured output is then longer than the cap.
StdoutData(n) ==
  /\ Writing
  /\ child[1].stdout + n <= MaxOutput
  /\ child' = Some([child[1] EXCEPT
                      !.stdout = @ + n,
                      !.signalled = @ \/ child[1].stdout + n > OutputCap])
  /\ UNCHANGED <<verifyVars, env, lastIndex, invoked, tinstall, detVars, timedOut,
                 dockerAvailable, taskVars, dockerVars, e2bVars, cleanups>>

\* child.stderr.on("data"), likewise.
StderrData(n) ==
  /\ Writing
  /\ child[1].stderr + n <= MaxOutput
  /\ child' = Some([child[1] EXCEPT
                      !.stderr = @ + n,
                      !.signalled = @ \/ child[1].stderr + n > OutputCap])
  /\ UNCHANGED <<verifyVars, env, lastIndex, invoked, tinstall, detVars, timedOut,
                 dockerAvailable, taskVars, dockerVars, e2bVars, cleanups>>

\* child.on("close"): the signal ended the child, which closes without an
\* exit code, or the program exited with its own code: it ended by itself,
\* or it handles or does not receive the signal.  run builds its result
\* from the exit code.
ChildCloses ==
  /\ Running
  /\ \E code \in IF child[1].signalled /\ child[1].obeys THEN {None}
                  ELSE {Some(0), Some(1)} :
       child' = Some([child[1] EXCEPT
                        !.exec = Some(DockerResult(ProcessResult(<<>>, <<>>, code)))])
  /\ UNCHANGED <<verifyVars, env, lastIndex, invoked, tinstall, detVars, timedOut,
                 dockerAvailable, taskVars, dockerVars, e2bVars, cleanups>>

\* spawn: the child runs, nothing is captured yet.
InitProcess ==
  /\ options = Options(None, None, None, None, "false", RulesOption("false", "", <<>>),
                       None)
  /\ env \in {e \in AllEnvironments : ~e.e2bInstalled /\ ~e.E2B_API_KEY}
  /\ dockerAvailable = "null"
  /\ vpc = "spawned"
  /\ blocks = <<>> /\ rules = <<>> /\ sandbox = "null"
  /\ calls = [resolveRules |-> 0, detect |-> 0, probe |-> 0, provider |-> 0]
  /\ NoTasks
  /\ result = None /\ error = None
  /\ thisSandbox = 0 /\ cleanups = 0 /\ cleanupPc = "idle" /\ killTarget = 0
  /\ timedOut = {} /\ dpc = <<>> /\ dcall = <<>> /\ resets = 0
  /\ lastIndex = <<>> /\ invoked = <<>>
  /\ \E obeys \in BOOLEAN : child = Some(Child(0, 0, FALSE, obeys, None))

NextProcess ==
  \/ \E n \in 1..MaxChunk : StdoutData(n)
  \/ \E n \in 1..MaxChunk : StderrData(n)
  \/ ChildCloses

SpecProcess == InitProcess /\ [][NextProcess]_vars

\* The detector used directly by its callers.
NextDetector ==
  \/ \E c \in DetectorCalls : StartCall(c)
  \/ \E c \in DetectorCalls : ProbeEnds(c)
  \/ ResetDockerCache

SpecDetector == InitDetector /\ [][NextDetector]_vars

\* ------------------------------------------------------------------------
\* Properties of one verify call (Spec)
\* ------------------------------------------------------------------------

Settled == vpc \in {"resolved", "rejected"}

NoCalls == [resolveRules |-> 0, detect |-> 0, probe |-> 0, provider |-> 0]

\* C1: in a verify call in which a provider was detected, cleanup() is
\* called exactly once: never twice, and once verify has settled never zero
\* times, whether it resolved or a block verification raised.
CleanupExactlyOnce ==
  /\ cleanups <= 1
  /\ (Settled /\ sandbox # "null") => cleanups = 1

\* verify rejected because a block verification raised, a provider having
\* been detected, and cleanup was called.
CleanupAfterRaise ==
  /\ vpc = "rejected"
  /\ sandbox # "null"
  /\ \E i \in Tasks : tpc[i] = "rejected"
  /\ cleanups = 1

\* C2: once verify has settled, every scratch directory created by a run of
\* the call has been deleted and every remote session created by its
\* provider has been killed.
ReleasedWhenSettled ==
  Settled => \A i \in Tasks : dirs[i] # "exists" /\ sessions[i] # "live"

\* The sessions created so far.
Created == {i \in Tasks : sessions[i] \in {"live", "killed", "killFailed"}}

\* C3: before the provider's first cleanup, at most one remote session has
\* been created, however many block tasks called run.
OneSessionBetweenCleanups == cleanups = 0 => Cardinality(Created) <= 1

\* The blocks' issues, concatenated in block order.
RECURSIVE IssuesUpTo(_, _)
IssuesUpTo(rs, n) == IF n = 0 THEN <<>> ELSE IssuesUpTo(rs, n - 1) \o rs[n].issues

\* The CodeBlockResult br belongs to block i: it holds that block, the
\* execution of that block's run, and no execution issue naming the code of
\* another block.
BelongsTo(br, i) ==
  /\ br.block = blocks[i]
  /\ (br.execution # None) => (texec[i] # None /\ br.execution[1] = texec[i][1].result)
  /\ \A k \in 1..Len(br.issues) :
       br.issues[k].source = "execution" =>
         \A l \in 1..Len(br.issues[k].message), j \in Tasks \ {i} :
           br.issues[k].message[l].text # blocks[j].code.name

\* C5: whatever the order in which the block tasks complete, the result of
\* block i is kept in slot i, result.blocks[i].block is the i-th input block,
\* result.issues is the concatenation of the blocks' issues in block order,
\* and an execution issue of one block is never among another block's
\* issues.
BlockOrderPreserved ==
  /\ \A i \in Tasks : blockResults[i] # None => BelongsTo(blockResults[i][1], i)
  /\ (vpc = "resolved" /\ blocks # <<>>) =>
       /\ Len(result[1].blocks) = Len(blocks)
       /\ \A i \in 1..Len(blocks) : BelongsTo(result[1].blocks[i], i)
       /\ result[1].issues = IssuesUpTo(result[1].blocks, Len(blocks))

\* The second of two block tasks has completed, with a failed execution,
\* while the first is still running.
SecondCompletedFirst ==
  /\ vpc = "join"
  /\ Len(blocks) = 2
  /\ tpc[1] \notin {"fulfilled", "rejected"}
  /\ tpc[2] = "fulfilled"
  /\ blockResults[2] # None
  /\ blockResults[2][1].execution # None
  /\ ~blockResults[2][1].execution[1].success

\* C6: verify never rejects because a sandboxed execution failed: preparing
\* the scratch directory or starting the container engine.
ExecutionFailureNeverRaises ==
  vpc = "rejected" =>
    error \notin {Some("mkdtemp failed"), Some("writeFile failed"),
                  Some("spawn docker failed")}

\* The CodeBlockResults produced so far.
Produced ==
  {blockResults[i][1] : i \in {j \in Tasks : blockResults[j] # None}}
    \cup (IF result = None THEN {}
          ELSE {result[1].blocks[i] : i \in 1..Len(result[1].blocks)})

\* C7: a CodeBlockResult has passed exactly when none of its issues has
\* severity error; warnings and infos never make a block fail.
PassedIffNoError ==
  \A br \in Produced :
    br.passed <=> (\A k \in 1..Len(br.issues) : br.issues[k].severity # "error")

\* verify resolved with a block that passed although it has a warning.
PassedWithWarning ==
  /\ vpc = "resolved"
  /\ \E i \in 1..Len(result[1].blocks) :
       /\ result[1].blocks[i].passed
       /\ \E k \in 1..Len(result[1].blocks[i].issues) :
            result[1].blocks[i].issues[k].severity = "warning"

\* C8: in every VerifyResult, the zero-block one included, totalBlocks is
\* the number of blocks, passedBlocks + failedBlocks = totalBlocks, passed is
\* failedBlocks = 0, and passed is the conjunction of the blocks' passed.
StatsConsistent ==
  result # None =>
    LET r == result[1]
    IN /\ r.stats.totalBlocks = Len(r.blocks)
       /\ r.stats.passedBlocks + r.stats.failedBlocks = r.stats.totalBlocks
       /\ r.passed <=> (r.stats.failedBlocks = 0)
       /\ r.passed <=> (\A i \in 1..Len(r.blocks) : r.blocks[i].passed)

\* verify resolved with two blocks: one passed with issues, one failed.
OnePassedOneFailed ==
  /\ vpc = "resolved"
  /\ Len(result[1].blocks) = 2
  /\ result[1].stats.failedBlocks = 1
  /\ \E i \in 1..2 : result[1].blocks[i].passed /\ result[1].blocks[i].issues # <<>>

\* The input sources given to the call.
Given == {f \in {"code", "text", "file"} : options[f] # None}

\* C9: a call given no input source, or several, is rejected by its first
\* step with the input error: no rule is resolved or run, no detection or
\* probe is made, no provider is created, no run or cleanup is called.
InvalidInputRaises ==
  Cardinality(Given) # 1 =>
    /\ vpc \in {"called", "rejected"}
    /\ vpc = "rejected" =>
         error = Some(IF Given = {} THEN "One of code, text, or file must be provided"
                      ELSE "Only one of code, text, or file can be provided")
    /\ result = None
    /\ rules = <<>> /\ sandbox = "null" /\ calls = NoCalls
    /\ dockerAvailable = "null" /\ Tasks = {} /\ cleanups = 0

\* A call given several input sources was rejected.
SeveralInputsRejected == vpc = "rejected" /\ Cardinality(Given) > 1

\* The call's only input is a text without fenced block that is empty or
\* white space.
ZeroBlockInput ==
  /\ Given = {"text"}
  /\ options.text[1].fenced = <<>>
  /\ \A l \in 1..Len(options.text[1].whole.lines) :
       options.text[1].whole.lines[l].kind = "blank"

\* C10: when input resolution yields no block, verify resolves at once with
\* passed = true, no issue, no block, counts of 0 and no provider, without
\* resolving rules, detecting or probing a sandbox, or calling run or
\* cleanup, whatever the sandbox and rules options.
ZeroBlocksEmptyResult ==
  (ZeroBlockInput /\ vpc # "called") =>
    /\ vpc = "resolved"
    /\ result = Some([passed |-> TRUE, issues |-> <<>>, blocks |-> <<>>,
                      stats |-> [totalBlocks |-> 0, passedBlocks |-> 0,
                                 failedBlocks |-> 0, rulesChecked |-> 0,
                                 sandboxProvider |-> "null"]])
    /\ rules = <<>> /\ sandbox = "null" /\ calls = NoCalls
    /\ dockerAvailable = "null" /\ Tasks = {} /\ cleanups = 0

\* A white-space text was verified with a sandbox and custom rules asked for.
WhitespaceTextResolved ==
  /\ vpc = "resolved"
  /\ ZeroBlockInput
  /\ options.text[1].whole.lines # <<>>
  /\ options.sandbox = "docker"
  /\ options.rules.kind = "custom"

\* ------------------------------------------------------------------------
\* Properties of a provider used directly (SpecProvider)
\* ------------------------------------------------------------------------

\* Run call i has an install or code request in flight on its session.
InFlight(i) == tpc[i] \in {"install", "runCode"}

\* C4: no two run calls have a request in flight on the same remote session
\* at the same time.
SessionCallsSerialized ==
  \A i, j \in Tasks : (i # j /\ InFlight(i) /\ InFlight(j)) => tsession[i] # tsession[j]

\* ------------------------------------------------------------------------
\* Properties of the detector (SpecDetector) and of detection in verify
\* ------------------------------------------------------------------------

\* The completed detectSandbox calls.
Detections == {c \in DetectorCalls : dpc[c] = "done" /\ dcall[c].kind = "detectSandbox"}

E2BUsable == env.E2B_API_KEY /\ env.e2bInstalled

\* C11: detectSandbox called with a preference returns the preferred
\* provider when it is available, whatever the other provider, and throws
\* when it is not; it returns neither the other provider nor null.
ExplicitPreferenceHonoured ==
  \A c \in Detections :
    dcall[c].preference # None =>
      LET preferred == dcall[c].preference[1]
          available == IF preferred = "docker" THEN dcall[c].value = "true" ELSE E2BUsable
      IN IF available THEN ~dcall[c].threw /\ dcall[c].provider = preferred
         ELSE dcall[c].threw /\ dcall[c].provider = "null"

\* detectSandbox("docker") threw, Docker being unavailable, although E2B is
\* available.
PreferredDockerUnavailable ==
  \E c \in Detections :
    /\ dcall[c].preference = Some("docker")
    /\ dcall[c].value = "false"
    /\ E2BUsable
    /\ dcall[c].threw

\* verify's call of detectSandbox threw.
DetectionThrew == vpc # "detector" /\ dcall # <<>> /\ dcall[1].threw

\* C12: a verify call asking for a provider by name that is unavailable
\* does not resolve with a result.
ExplicitUnavailableRaises ==
  (options.sandbox \in {"docker", "e2b"} /\ DetectionThrew) => vpc # "resolved"

\* C13: detectSandbox called without a preference returns Docker whenever
\* Docker is available, E2B exactly when Docker is not and E2B is, and null
\* exactly when neither is.
AutoDetectionOrder ==
  \A c \in Detections :
    dcall[c].preference = None =>
      /\ ~dcall[c].threw
      /\ dcall[c].provider =
           IF dcall[c].value = "true" THEN "docker"
           ELSE IF E2BUsable THEN "e2b"
           ELSE "null"

\* detectSandbox() returned Docker although E2B is available too.
DockerBeforeE2B ==
  \E c \in Detections :
    /\ dcall[c].preference = None
    /\ dcall[c].value = "true"
    /\ E2BUsable
    /\ dcall[c].provider = "docker"

\* C14: when detectSandbox throws, verify goes on without a sandbox: run is
\* never called, verify is not rejected with the detection error, and the
\* result has the syntax and rule issues of every block, no provider, no
\* execution and no execution issue.
DetectionErrorSwallowed ==
  DetectionThrew =>
    /\ sandbox = "null"
    /\ \A i \in Tasks : runs[i] = 0
    /\ vpc = "rejected" => error = Some("rule predicate threw")
    /\ vpc = "resolved" =>
         /\ result[1].stats.sandboxProvider = "null"
         /\ Len(result[1].blocks) = Len(blocks)
         /\ \A i \in 1..Len(blocks) :
              /\ result[1].blocks[i].execution = None
              /\ result[1].blocks[i].issues
                   = checkSyntax(blocks[i].code, blocks[i].language)
                       \o runRules(blocks[i].code, blocks[i].language, rules).issues
         /\ \A k \in 1..Len(result[1].issues) : result[1].issues[k].source # "execution"

\* verify resolved with issues although detectSandbox threw.
ResolvedAfterDetectionThrew ==
  /\ DetectionThrew
  /\ vpc = "resolved"
  /\ result[1].issues # <<>>

\* C15: an isDockerAvailable call started after another one completed, with
\* no resetDockerCache since, returns what that one returned and runs no
\* probe.
CachedAnswerStable ==
  \A c \in DetectorCalls :
    (dpc[c] = "done" /\ ~dcall[c].stale /\ dcall[c].value # "none"
       /\ dcall[c].expected # {}) =>
      /\ dcall[c].expected = {dcall[c].value}
      /\ ~dcall[c].probed

\* ------------------------------------------------------------------------
\* Properties of the runs
\* ------------------------------------------------------------------------

\* The Docker runs that went past the language check and have settled.
SettledDockerRuns ==
  {i \in Tasks : /\ sandbox = "docker"
                 /\ runs[i] > 0
                 /\ blocks[i].language \in {"python", "javascript", "typescript"}
                 /\ tpc[i] \in {"fulfilled", "rejected"}}

\* C16 as stated: every Docker run past the language check has created a
\* scratch directory of its own, and that directory has been deleted by the
\* time the run settles.
ScratchDeletedAtSettle == \A i \in SettledDockerRuns : dirs[i] = "deleted"

\* C16, amended: every Docker run past the language check awaits mkdtemp for
\* a directory of its own; when mkdtemp fails the run rejects without a
\* directory, else the run settles only after rm of its directory has
\* settled, so that the directory is deleted unless rm failed; a directory
\* exists only while its run is under way.
ScratchRemovalAwaited ==
  /\ \A i \in SettledDockerRuns :
       \/ dirs[i] \in {"deleted", "kept"}
       \/ dirs[i] = "none" /\ texec[i] = Some(Threw("mkdtemp failed"))
  /\ \A i \in Tasks : dirs[i] = "exists" => tpc[i] \in {"writeFile", "process", "rm"}

\* Two Docker runs were under way together, each with its directory, and
\* both settled with their directories deleted, one of them by rejecting.
BothScratchDeleted ==
  /\ Cardinality(SettledDockerRuns) = 2
  /\ \A i \in SettledDockerRuns : dirs[i] = "deleted"
  /\ \E i \in SettledDockerRuns : tpc[i] = "rejected"

\* The runs killed on timeout have failed.
TimedOutRunFails ==
  \A i \in timedOut :
    /\ texec[i] # None
    /\ ~texec[i][1].threw
    /\ ~texec[i][1].result.success
    /\ texec[i][1].result.exitCode # 0

SuccessIffExitZero ==
  \A i \in Tasks :
    (texec[i] # None /\ ~texec[i][1].threw) =>
      (texec[i][1].result.success <=> (texec[i][1].result.exitCode = 0))

\* One run was refused for its language and another one was killed on
\* timeout.
RefusedAndTimedOut ==
  /\ vpc = "direct"
  /\ \E i \in Tasks :
       /\ blocks[i].language \notin {"python", "javascript", "typescript"}
       /\ tpc[i] = "fulfilled"
  /\ \E i \in timedOut : tpc[i] = "fulfilled"

\* Whether run is to be invoked for block i according to the provider and
\* the language of the block alone.
RunExpected(i) ==
  sandbox # "null" /\ blocks[i].language \in {"python", "javascript", "typescript"}

\* Whether the syntax and rule checks of block i raise.
ChecksRaise(i) == StaticIssues(blocks[i], rules).threw

\* The CodeBlockResults of block i that exist: the one its task produced and
\* the one in the VerificationResult.
ResultsOf(i) ==
  (IF blockResults[i] = None THEN {} ELSE {blockResults[i][1]})
    \cup (IF result = None THEN {} ELSE {result[1].blocks[i]})

\* C19 as stated: run is invoked exactly once for every python, javascript
\* or typescript block when a provider was detected, and never otherwise; a
\* CodeBlockResult has an execution exactly when run was invoked.
RunOncePerExecutableBlock ==
  \A i \in Tasks :
    /\ runs[i] = IF RunExpected(i) THEN 1 ELSE 0
    /\ \A r \in ResultsOf(i) : (r.execution # None) <=> (runs[i] > 0)

\* C19, amended: run is invoked exactly once for every python, javascript
\* or typescript block whose syntax and rule checks did not raise, when a
\* provider was detected, and never for another block; a CodeBlockResult
\* has an execution exactly when run was invoked for its block.
RunOnceUnlessChecksRaise ==
  \A i \in Tasks :
    /\ runs[i] = IF RunExpected(i) /\ ~ChecksRaise(i) THEN 1 ELSE 0
    /\ \A r \in ResultsOf(i) : (r.execution # None) <=> (runs[i] > 0)

\* verify resolved with a provider for a python block that was run and a go
\* block that was not.
OneRunOneSkipped ==
  /\ vpc = "resolved"
  /\ sandbox # "null"
  /\ \E i, j \in Tasks :
       /\ blocks[i].language = "python" /\ runs[i] = 1
       /\ result[1].blocks[i].execution # None
       /\ blocks[j].language = "go" /\ runs[j] = 0
       /\ result[1].blocks[j].execution = None

\* The positions in the issues of r of the execution issues of a severity.
ExecutionSourced(r, severities) ==
  {k \in 1..Len(r.issues) :
     r.issues[k].source = "execution" /\ r.issues[k].severity \in severities}

\* C20: a block whose execution failed has exactly one execution issue of
\* severity error, with the error the provider reported or else a generic
\* message, and at most one more execution issue, of severity info, only
\* when stderr is not empty and differs from the error; a block whose
\* execution succeeded has no execution issue.
ExecutionIssuesAsReported ==
  \A r \in Produced :
    r.execution # None =>
      LET execution == r.execution[1]
          errors == ExecutionSourced(r, {"error"})
          infos == ExecutionSourced(r, {"info"})
      IN IF execution.success
         THEN ExecutionSourced(r, {"error", "warning", "info"}) = {}
         ELSE /\ Cardinality(errors) = 1
              /\ \A k \in errors :
                   r.issues[k].message = IF execution.error = None
                                         THEN Msg("Code execution failed")
                                         ELSE execution.error[1]
              /\ Cardinality(infos) <= 1
              /\ ExecutionSourced(r, {"warning"}) = {}
              /\ infos # {} =>
                   execution.stderr # <<>> /\ Some(execution.stderr) # execution.error

\* verify resolved with a block whose execution failed without a reported
\* error, which has the generic execution issue, and with a block whose
\* execution succeeded.
FailedWithoutReportedError ==
  /\ vpc = "resolved"
  /\ \E i, j \in 1..Len(result[1].blocks) :
       LET failed == result[1].blocks[i]
           passed == result[1].blocks[j]
       IN /\ failed.execution # None
          /\ ~failed.execution[1].success
          /\ failed.execution[1].error = None
          /\ \E k \in ExecutionSourced(failed, {"error"}) :
               failed.issues[k].message = Msg("Code execution failed")
          /\ passed.execution # None
          /\ passed.execution[1].success
          /\ ExecutionSourced(passed, {"error", "warning", "info"}) = {}

\* C21: stats.sandboxProvider of a VerificationResult is not null exactly
\* when at least one of its blocks has an execution result.
ProviderNamedIffExecuted ==
  result # None =>
    ((result[1].stats.sandboxProvider # "null")
       <=> \E i \in 1..Len(result[1].blocks) : result[1].blocks[i].execution # None)

\* The rules of the call with the given id.
RulesWithId(id) == {rules[k] : k \in {j \in 1..Len(rules) : Some(rules[j].id) = id}}

\* C22: no issue is emitted for a rule with a language restriction on a
\* block whose language, one of the five languages or "unknown", is not in
\* the restriction.
RestrictedRuleSilentElsewhere ==
  \A r \in Produced :
    \A k \in 1..Len(r.issues) :
      r.issues[k].source = "rule" =>
        \A rule \in RulesWithId(r.issues[k].ruleId) :
          rule.languages = None \/ r.block.language \in rule.languages[1]

\* C23: the container of a run is started with --network=none exactly when
\* the run was called without packages to install (install absent or
\* empty), whatever the other runs on the provider were called with.
NetworkOffIffNoInstall ==
  \A i \in Tasks :
    dockerArgs[i] # None =>
      (("--network=none" \in dockerArgs[i][1])
         <=> (tinstall[i] = None \/ tinstall[i] = Some(<<>>)))

\* A container was started with the network for a run with packages to
\* install, and that run has settled; the containers of a run with an empty
\* install list and of a run without one were started with --network=none.
NetworkOnForInstallOnly ==
  \E i, j \in Tasks :
    /\ i # j
    /\ tinstall[i] # None /\ tinstall[i] # Some(<<>>)
    /\ dockerArgs[i] # None /\ "--network=none" \notin dockerArgs[i][1]
    /\ tpc[i] = "fulfilled"
    /\ tinstall[j] \in {None, Some(<<>>)}
    /\ dockerArgs[j] # None /\ "--network=none" \in dockerArgs[j][1]

\* C24: cleanup never fails, and a cleanup that follows another one sends
\* no further teardown request: a cleanup called with no session held
\* returns at once, a teardown request is only ever sent for a session that
\* is live, never for one torn down before, and when the request settles,
\* failed or not, cleanup returns and no session is held.
CleanupIdempotent ==
  [][/\ (cleanups' = cleanups + 1 /\ thisSandbox = 0) => cleanupPc' = "idle"
     /\ (cleanupPc # "killing" /\ cleanupPc' = "killing") => sessions[killTarget'] = "live"
     /\ (cleanupPc = "killing" /\ cleanupPc' # "killing") =>
          (thisSandbox' = 0 /\ sessions'[killTarget] \in {"killed", "killFailed"})]_vars

\* Two cleanups were made on an E2B provider that created one session, and
\* tearing that session down failed.
TwoCleanupsOneFailedKill ==
  /\ vpc = "direct"
  /\ cleanups = 2
  /\ cleanupPc = "idle"
  /\ Cardinality({i \in Tasks : sessions[i] # "none"}) = 1
  /\ \E i \in Tasks : sessions[i] = "killFailed"

\* C25: the syntax heuristics and the rule engine, run twice on the same
\* code, language and rules, give the same issues (or fail alike) both
\* times, because every run leaves the regular expression of every rule at
\* lastIndex 0, where it was when the rule was new, and gives what the
\* checks give on such rules.
SecondRunSameAsFirst ==
  /\ tpc[1] # "idle" => \A k \in 1..Len(rules) : lastIndex[k] = 0
  /\ tpc[1] # "idle" =>
       LET static == StaticIssues(blocks[1], rules)
       IN /\ (tpc[1] = "rejected") <=> static.threw
          /\ tissues[1] = static.issues
  /\ tpc[2] # "idle" =>
       tissues[2] = tissues[1] /\ tpc[2] = tpc[1] /\ terror[2] = terror[1]

\* Both runs have reported the match of a rule whose regular expression is
\* global.
GlobalPatternMatchedTwice ==
  /\ vpc = "rules"
  /\ tpc = <<"fulfilled", "fulfilled">>
  /\ \E k \in 1..Len(rules) :
       /\ rules[k].flags = "g"
       /\ \E n \in 1..Len(tissues[2]) : tissues[2][n].ruleId = Some(rules[k].id)

\* C26: defineRule throws on a rule whose id, name, message or severity is
\* missing or empty or that has neither a pattern nor a check; a rule it
\* returned has a pattern or a check, and is never modified afterwards.
DefinedRuleNeverModified ==
  [][/\ \A k \in 1..Len(rules) : rules'[k] = rules[k]
     /\ \A k \in 1..Len(rules') :
          /\ ~Falsy(rules'[k].id) /\ ~Falsy(rules'[k].name)
          /\ ~Falsy(rules'[k].message) /\ ~Falsy(rules'[k].severity)
          /\ rules'[k].pattern # None \/ rules'[k].check # None]_vars

\* The rules option is false or an empty list.
RulesDisabled ==
  options.rules.kind = "false" \/ (options.rules.kind = "custom" /\ options.rules.list = <<>>)

\* The issues of r that come from a source.
IssuesFrom(r, source) ==
  LET FromSource(issue) == issue.source = source
  IN SelectSeq(r.issues, FromSource)

\* C27: with rules disabled no block has an issue of a rule, every block has
\* the issues of the syntax heuristics, and a block passes exactly when no
\* issue of it, which then is a syntax or an execution issue, is an error.
NoRuleIssuesWhenDisabled ==
  RulesDisabled =>
    \A r \in Produced :
      /\ IssuesFrom(r, "rule") = <<>>
      /\ IssuesFrom(r, "syntax") = checkSyntax(r.block.code, r.block.language)
      /\ r.passed <=> ~\E k \in 1..Len(r.issues) : r.issues[k].severity = "error"

\* verify resolved with rules: false, without a sandbox: one block fails on
\* its syntax issues, and a block the built-in rules object to passes
\* without an issue.
FailedOnSyntaxAlone ==
  /\ vpc = "resolved"
  /\ options.rules.kind = "false"
  /\ sandbox = "null"
  /\ ~result[1].passed
  /\ \E i, j \in 1..Len(result[1].blocks) :
       LET failed == result[1].blocks[i]
           spared == result[1].blocks[j]
       IN /\ ~failed.passed
          /\ IssuesFrom(failed, "syntax") = failed.issues
          /\ runRules(spared.block.code, spared.block.language, allBuiltinRules).issues
               # <<>>
          /\ spared.issues = <<>>
          /\ spared.passed

\* C28: with sandbox: false verify runs no detection and no probe, creates
\* no provider, calls neither run nor cleanup, and its result names no
\* provider and has no execution and no execution issue; with sandbox
\* omitted or true, detection is run once, without a preference.
SandboxFalseTouchesNothing ==
  /\ options.sandbox = "false" =>
       /\ calls.detect = 0 /\ calls.probe = 0 /\ calls.provider = 0
       /\ dcall = <<>>
       /\ sandbox = "null"
       /\ cleanups = 0
       /\ \A i \in Tasks : runs[i] = 0
       /\ result # None =>
            /\ result[1].stats.sandboxProvider = "null"
            /\ \A i \in 1..Len(result[1].blocks) :
                 /\ result[1].blocks[i].execution = None
                 /\ IssuesFrom(result[1].blocks[i], "execution") = <<>>
  /\ (options.sandbox \in {"undefined", "true"} /\ calls.resolveRules > 0) =>
       /\ calls.detect = 1
       /\ dcall # <<>>
       /\ dcall[1].kind = "detectSandbox"
       /\ dcall[1].preference = None

\* verify resolved with sandbox: false for a python block, on a machine on
\* which a provider is available.
ResolvedWithoutSandbox ==
  /\ vpc = "resolved"
  /\ options.sandbox = "false"
  /\ isE2BAvailable(env)
  /\ \E i \in 1..Len(result[1].blocks) :
       /\ result[1].blocks[i].block.language = "python"
       /\ result[1].blocks[i].execution = None

\* The runs in which the program exited by itself with a status other
\* than 0.
ExitedNonZero ==
  {i \in Tasks \ timedOut :
     /\ sandbox = "docker"
     /\ texec[i] \in {Some(Returned(DockerResult(p))) :
                        p \in {q \in ProgramExits(blocks[i].code) : q.exitCode # 0}}}

\* C29: the issues reported for an execution that was killed on timeout
\* differ, in source or in message, from those reported for an execution in
\* which the program exited with a status other than 0.
TimeoutDistinguishable ==
  \A i \in timedOut, j \in ExitedNonZero :
    (blockResults[i] # None /\ blockResults[j] # None) =>
      \A m \in 1..Len(IssuesFrom(blockResults[i][1], "execution")),
         n \in 1..Len(IssuesFrom(blockResults[j][1], "execution")) :
        LET timeout == IssuesFrom(blockResults[i][1], "execution")[m]
            exit == IssuesFrom(blockResults[j][1], "execution")[n]
        IN timeout.source # exit.source \/ timeout.message # exit.message

\* The run call of block task i has been made and has not settled.
RunUnderWay(i) ==
  tpc[i] \in {"mkdtemp", "writeFile", "process", "rm", "import", "create", "install",
              "runCode"}

\* C30: teardown starts only after every block task has finished: once
\* cleanup() has been invoked in a verify call, no run call of a block of
\* that call is under way.
TeardownAfterEveryTask ==
  (vpc # "direct" /\ cleanups > 0) => \A i \in Tasks : ~RunUnderWay(i)

\* The blocks on whose code a predicate of one of the rules throws.
PredicateThrows ==
  {i \in 1..Len(blocks) : runRules(blocks[i].code, blocks[i].language, rules).threw}

\* C31: when a rule's predicate throws on a block, the block tasks having
\* been started, verify has no VerifyResult, cleanup is called at most once,
\* and once verify has settled it has rejected with the error of the
\* predicate, and a detected provider has been cleaned up exactly once.
ThrowingPredicateRejects ==
  (Tasks # {} /\ PredicateThrows # {}) =>
    /\ result = None
    /\ cleanups <= 1
    /\ Settled =>
         /\ vpc = "rejected"
         /\ error = Some("rule predicate threw")
         /\ cleanups = IF sandbox = "null" THEN 0 ELSE 1

\* verify rejected with the error of a predicate that threw on the second
\* of two blocks, and the detected provider was cleaned up.
RejectedByPredicate ==
  /\ vpc = "rejected"
  /\ PredicateThrows = {2}
  /\ Len(blocks) = 2
  /\ sandbox # "null"
  /\ runs[1] = 1
  /\ cleanups = 1
  /\ error = Some("rule predicate threw")

\* C32: the issues of a block are its syntax issues, then its rule issues,
\* then its execution issues; the syntax heuristics and the rule engine
\* have run when the block is sent to the sandbox, and what they found is
\* kept whatever the execution gives.
StagesInOrder ==
  /\ \A r \in Produced :
       /\ r.issues = IssuesFrom(r, "syntax") \o IssuesFrom(r, "rule")
                        \o IssuesFrom(r, "execution")
       /\ IssuesFrom(r, "syntax") = checkSyntax(r.block.code, r.block.language)
       /\ IssuesFrom(r, "rule") = runRules(r.block.code, r.block.language, rules).issues
  /\ \A i \in Tasks :
       (vpc # "direct" /\ runs[i] > 0) =>
         tissues[i] = checkSyntax(blocks[i].code, blocks[i].language)
                        \o runRules(blocks[i].code, blocks[i].language, rules).issues

\* verify resolved with a block that has syntax issues, rule issues and the
\* issue of a failed execution.
AllThreeStagesReported ==
  /\ vpc = "resolved"
  /\ \E i \in 1..Len(result[1].blocks) :
       LET r == result[1].blocks[i]
       IN /\ IssuesFrom(r, "syntax") # <<>>
          /\ IssuesFrom(r, "rule") # <<>>
          /\ IssuesFrom(r, "execution") # <<>>

\* The issues the first run of the checks gave for the k-th rule.
IssuesOfRule(k) ==
  LET OfRule(issue) == issue.source = "rule" /\ issue.ruleId = Some(rules[k].id)
  IN SelectSeq(tissues[1], OfRule)

\* The numbers, from 1, of the lines of the code that the pattern of the
\* k-th rule matches.
MatchingLines(k) ==
  IF rules[k].pattern = None THEN {}
  ELSE {n \in 1..Len(blocks[1].code.lines) :
          blocks[1].code.lines[n].kind \in rules[k].pattern[1]}

\* The rule index of the n-th rule issue of the first run.
RuleIndexAt(n) ==
  LET issues == IssuesFrom([issues |-> tissues[1]], "rule")
  IN CHOOSE k \in 1..Len(rules) : issues[n].ruleId = Some(rules[k].id)

\* C33: runRules gives the issues rule by rule in the order of the rule
\* list; the issues of a rule are one per line its pattern matches, in
\* ascending order of their line numbers counted from 1, and after them one
\* per match of its predicate; a rule skipped for the language gives none.
IssuesGroupedByRule ==
  (vpc = "rules" /\ tpc[1] = "fulfilled") =>
    /\ \A m, n \in 1..Len(IssuesFrom([issues |-> tissues[1]], "rule")) :
         m < n => RuleIndexAt(m) <= RuleIndexAt(n)
    /\ \A k \in 1..Len(rules) :
         LET mine == IssuesOfRule(k)
             lines == MatchingLines(k)
             found == IF rules[k].check = None THEN <<>>
                      ELSE Check(rules[k].check[1], blocks[1].code, blocks[1].language).matches
         IN IF RuleSkipped(rules[k], blocks[1].language) THEN mine = <<>>
            ELSE /\ Len(mine) = Cardinality(lines) + Len(found)
                 /\ \A m \in 1..Cardinality(lines) :
                      /\ mine[m].line # None
                      /\ mine[m].line[1] \in lines
                      /\ Cardinality({n \in lines : n <= mine[m].line[1]}) = m
                      /\ mine[m].message = rules[k].message
                 /\ \A m \in 1..Len(found) :
                      mine[Cardinality(lines) + m].line = found[m].line

\* The first run gave, for a rule with a pattern and a predicate, the two
\* lines its pattern matches and then the two matches of its predicate,
\* before an issue of the next rule.
PatternThenPredicate ==
  /\ vpc = "rules"
  /\ tpc[1] = "fulfilled"
  /\ Len(rules) = 2
  /\ rules[1].pattern # None /\ rules[1].check # None
  /\ Cardinality(MatchingLines(1)) = 2
  /\ Len(IssuesOfRule(1)) = 4
  /\ IssuesOfRule(2) # <<>>

\* How many runs of the checks have ended.
RunsEnded == Cardinality({t \in Tasks : tpc[t] \in {"fulfilled", "rejected"}})

\* Whether the k-th rule has a predicate and applies to blocks[1].
PredicateApplies(k) ==
  rules[k].check # None /\ ~RuleSkipped(rules[k], blocks[1].language)

\* Whether the predicate of a rule before the k-th raises on blocks[1].
RaisedBefore(k) ==
  \E j \in 1..(k - 1) :
    /\ PredicateApplies(j)
    /\ Check(rules[j].check[1], blocks[1].code, blocks[1].language).threw

\* Every match the predicate of the k-th rule returns for blocks[1] is one
\* issue of the first run, after those of the pattern: of source "rule",
\* with the id and the severity of the rule, and with the message and the
\* suggestion of the match, or those of the rule where the match has none.
MatchesBecomeIssues(k) ==
  LET rule == rules[k]
      found == Check(rule.check[1], blocks[1].code, blocks[1].language).matches
      mine == IssuesOfRule(k)
      before == Cardinality(MatchingLines(k))
  IN /\ Len(mine) = before + Len(found)
     /\ \A m \in 1..Len(found) :
          LET issue == mine[before + m]
          IN /\ issue.source = "rule"
             /\ issue.ruleId = Some(rule.id)
             /\ issue.severity = rule.severity
             /\ issue.line = found[m].line
             /\ issue.message = IF found[m].message = None THEN rule.message
                                ELSE found[m].message[1]
             /\ issue.suggestion = IF found[m].suggestion = None THEN rule.suggestion
                                   ELSE found[m].suggestion

\* C34 as stated: in every run of the checks the predicate of a rule is
\* invoked exactly once when the rule applies to the block, and each match
\* it returns becomes one issue with source "rule", the id and severity of
\* the rule, and the message and suggestion of the match or else of the rule.
PredicateInvokedOncePerBlock ==
  vpc = "rules" =>
    \A k \in 1..Len(rules) :
      /\ invoked[k] = IF PredicateApplies(k) THEN RunsEnded ELSE 0
      /\ (PredicateApplies(k) /\ tpc[1] = "fulfilled") => MatchesBecomeIssues(k)

\* C34, amended: in every run of the checks the predicate of a rule is
\* invoked exactly once when the rule applies to the block and no predicate
\* of an earlier rule raised on it, and never otherwise; each match it
\* returns in a run that ends without an error becomes one issue with
\* source "rule", the id and severity of the rule, and the message and
\* suggestion of the match or else of the rule.
PredicateInvokedOnceUnlessRaised ==
  vpc = "rules" =>
    \A k \in 1..Len(rules) :
      /\ invoked[k] = IF PredicateApplies(k) /\ ~RaisedBefore(k) THEN RunsEnded ELSE 0
      /\ (PredicateApplies(k) /\ tpc[1] = "fulfilled") => MatchesBecomeIssues(k)

\* Two runs have ended, and each invoked once a predicate whose two matches
\* took the message and the suggestion of the rule.
DefaultsForBareMatches ==
  /\ vpc = "rules"
  /\ RunsEnded = 2
  /\ tpc[1] = "fulfilled"
  /\ \E k \in 1..Len(rules) :
       /\ PredicateApplies(k)
       /\ invoked[k] = 2
       /\ LET found == Check(rules[k].check[1], blocks[1].code, blocks[1].language).matches
          IN /\ Len(found) = 2
             /\ \A m \in 1..2 : found[m].message = None /\ found[m].suggestion = None
       /\ rules[k].suggestion # None
       /\ \A m \in 3..4 : /\ IssuesOfRule(k)[m].suggestion = rules[k].suggestion
                            /\ IssuesOfRule(k)[m].message = rules[k].message

\* Whether more than the cap was captured of a stream of the child.
CapExceeded == child[1].stdout > OutputCap \/ child[1].stderr > OutputCap

\* C35: the child is sent a termination signal as soon as more than the
\* cap was captured of its stdout or of its stderr, the run then resolves
\* as a failed execution, and no more is captured of a stream than the cap
\* and the piece of output that exceeded it.
OutputCapped ==
  child # None =>
    /\ CapExceeded => child[1].signalled
    /\ (CapExceeded /\ child[1].exec # None) => ~child[1].exec[1].success
    /\ child[1].stdout <= OutputCap + MaxChunk
    /\ child[1].stderr <= OutputCap + MaxChunk

\* The runs of a provider that were called with a language it does not
\* support.
Refused ==
  {i \in Tasks : vpc = "direct" /\ runs[i] > 0 /\ ~Supports(sandbox, blocks[i].language)}

\* C36: a run call with a language the provider does not support returns
\* at once a failed ExecutionResult with exit code 1 and duration 0, and
\* the call changes nothing: no scratch directory, no container arguments,
\* no session, no provider state.
UnsupportedRefusedAtOnce ==
  /\ [](\A i \in Refused :
          /\ tpc[i] = "fulfilled"
          /\ texec[i] # None /\ ~texec[i][1].threw
          /\ ~texec[i][1].result.success
          /\ texec[i][1].result.exitCode = 1
          /\ texec[i][1].result.durationMs = "0"
          /\ dirs[i] = "none" /\ dockerArgs[i] = None /\ tsession[i] = 0)
  /\ [][\A i \in Tasks :
          (vpc = "direct" /\ runs'[i] > runs[i] /\ ~Supports(sandbox, blocks[i].language))
            => UNCHANGED <<dirs, dockerArgs, sessions, thisSandbox, tsession, calls>>]_vars

\* Both runs of an E2B provider were refused for their language and no
\* session exists.
BothRefusedNoSession ==
  /\ vpc = "direct"
  /\ sandbox = "e2b"
  /\ Cardinality(Refused) = 2
  /\ \A i \in Refused : tpc[i] = "fulfilled"
  /\ thisSandbox = 0
  /\ \A k \in DOMAIN sessions : sessions[k] = "none"

\* A run of a Docker provider was refused for its language, without a
\* scratch directory, while another run has one.
RefusedBesideRunning ==
  /\ vpc = "direct"
  /\ sandbox = "docker"
  /\ \E i \in Refused, j \in Tasks : dirs[i] = "none" /\ dirs[j] = "exists"

\* The error of a run that found no credential.
CredentialRequired == Msg("E2B_API_KEY environment variable is required")

\* The runs that resolved with the error of the missing credential.
FailedForCredential ==
  {i \in Tasks : /\ vpc = "direct"
                 /\ texec[i] # None
                 /\ texec[i][1].result.error = Some(CredentialRequired)}

FailedReturned ==
  {i \in Tasks : /\ vpc = "direct"
                 /\ texec[i] # None /\ ~texec[i][1].threw
                 /\ ~texec[i][1].result.success}

\* Whether verifyBlock pushes for the execution the one issue of severity
\* error and no other, the stderr being empty or the error itself.
OneExecutionIssue(execution, language) ==
  /\ execution.stderr = <<>> \/ Some(execution.stderr) = execution.error
  /\ Len(ExecutionIssues(execution, language)) = 1
  /\ ExecutionIssues(execution, language)[1].severity = "error"

\* C38 as stated: every failed ExecutionResult a provider returns has a
\* stderr that is empty or equal to its error, so that verifyBlock pushes
\* exactly one execution issue for it and never the one of severity info.
FailedStderrIsError ==
  \A i \in FailedReturned : OneExecutionIssue(texec[i][1].result, blocks[i].language)

\* C38, amended: every failed ExecutionResult a provider returns for python,
\* javascript or typescript code, the languages verify calls run for, has a
\* stderr that is empty or equal to its error, so that verifyBlock pushes
\* exactly one execution issue for it and never the one of severity info.
FailedStderrIsErrorWhenRun ==
  \A i \in FailedReturned :
    blocks[i].language \in EXECUTABLE_LANGUAGES =>
      OneExecutionIssue(texec[i][1].result, blocks[i].language)

\* A Docker run of python code failed with output on stderr, which is its
\* error, and another run was refused for its language.
StderrReportedOnce ==
  /\ vpc = "direct"
  /\ sandbox = "docker"
  /\ \E i, j \in FailedReturned :
       /\ blocks[i].language = "python"
       /\ texec[i][1].result.stderr # <<>>
       /\ extractErrorLine(texec[i][1].result.stderr, "python") # None
       /\ Some(texec[i][1].result.stderr) = texec[i][1].result.error
       /\ blocks[j].language \notin EXECUTABLE_LANGUAGES

\* Whether call c is the first one made after resetDockerCache() that asks
\* about the container engine.
FirstAfterReset(c) ==
  /\ resets > 0
  /\ dpc[c] # "idle"
  /\ ~dcall[c].stale
  /\ dcall[c].preference # Some("e2b")
  /\ \A k \in 1..(c - 1) : dcall[k].stale \/ dcall[k].preference = Some("e2b")

\* C39: the first isDockerAvailable call after resetDockerCache() runs a
\* probe of its own and returns the result of that probe, also when a probe
\* started before the reset ends after it.
FreshProbeAfterReset ==
  \A c \in DetectorCalls : FirstAfterReset(c) => dcall[c].probed

\* C40: isDockerAvailable never rejects; when its probe cannot be started,
\* exits with a non-zero code or is killed at its timeout, it returns false
\* and false is what it leaves in the cache; detectSandbox without a
\* preference never throws.
ProbeFailureIsFalse ==
  /\ [](\A c \in DetectorCalls :
          dpc[c] = "done" =>
            /\ dcall[c].kind = "isDockerAvailable" =>
                 ~dcall[c].threw /\ dcall[c].value \in {"true", "false"}
            /\ dcall[c].preference = None => ~dcall[c].threw
            /\ dcall[c].probe \in {"nonzero", "error", "timeout"} =>
                 dcall[c].value = "false")
  /\ [][\A c \in DetectorCalls :
          (dpc[c] = "probing" /\ dpc'[c] = "done"
             /\ dcall'[c].probe \in {"nonzero", "error", "timeout"})
            => dockerAvailable' = "false"]_vars

\* The probes of three isDockerAvailable calls ended: one could not be
\* started, one exited with a non-zero code and one was killed at its
\* timeout; every call returned false.
ThreeFailedProbes ==
  /\ vpc = "detector"
  /\ \A c \in DetectorCalls :
       /\ dpc[c] = "done"
       /\ dcall[c].kind = "isDockerAvailable"
       /\ dcall[c].value = "false"
  /\ {dcall[c].probe : c \in DetectorCalls} = {"nonzero", "error", "timeout"}

\* detectSandbox() returned without a provider after its probe could not be
\* started.
NoProviderAfterSpawnError ==
  /\ vpc = "detector"
  /\ \E c \in DetectorCalls :
       /\ dpc[c] = "done"
       /\ dcall[c].kind = "detectSandbox" /\ dcall[c].preference = None
       /\ dcall[c].probe = "error"
       /\ ~dcall[c].threw /\ dcall[c].provider = "null"
       /\ dockerAvailable = "false"

====
